---- MODULE Spec2Model ----
(***************************************************************************)
(* RAG chat pipeline of full_agent_demo: RAGModel (the retrieval           *)
(* decorator) over OllamaModel (the chat model client), with the pure      *)
(* helpers shouldUseRAG, buildRAGPrompt and buildPrompt, the POST          *)
(* /api/chat route, the retrieval chain functions, the vector-store        *)
(* search, two interleaved requests, and the chat UI.                      *)
(*                                                                         *)
(* Text is a sequence of characters; the fixed pieces of a template are    *)
(* single tokens.  Every await of the code is one step of the model: the   *)
(* awaited call either returns or throws.  Consumer-side cancellation of   *)
(* the response stream is outside the modelled environment.                *)
(***************************************************************************)
EXTENDS Integers, Sequences, FiniteSets, TLC

\* ------------------------------------------------------------------ bounds
MaxHistory   == 2   \* turns in the caller's history
MaxDocs      == 2   \* ids returned by one vector-store query
MaxToolCalls == 2   \* tool calls declared by the first model response
MaxFragments == 2   \* fragments yielded by one model stream
MaxLen       == 2   \* characters of a query or document (prompt assembly)
MaxThreshold == 3   \* largest configured ragThreshold / message length
MaxFrames    == 3   \* frames of a response body read by the chat UI
MaxIgnored   == 1   \* calls of handleSubmit that return at its guard

\* ------------------------------------------------------------------ text
RECURSIVE Join(_, _)
\* Array.prototype.join(sep)
Join(ss, sep) ==
  IF ss = <<>> THEN <<>>
  ELSE IF Len(ss) = 1 THEN ss[1]
  ELSE ss[1] \o sep \o Join(Tail(ss), sep)

\* all texts over alphabet A of length 0..n
TextsUpTo(A, n) == UNION {[1..k -> A] : k \in 0..n}

\* s ends with t
EndsWith(s, t) ==
  /\ Len(t) <= Len(s)
  /\ SubSeq(s, Len(s) - Len(t) + 1, Len(s)) = t

\* s starts with t
StartsWith(s, t) ==
  /\ Len(t) <= Len(s)
  /\ SubSeq(s, 1, Len(t)) = t

\* ------------------------------------------------------- prompt assembly
\* the fixed pieces of the template (ragModel.ts 40-47, textSplitter.ts 94-101)
TplHeader   == <<"HEADER:\n">>
TplQuestion == <<"\n\nQUESTION:">>
TplSuffix   == <<"\n\nCITE-INSTRUCTION">>
NL          == <<"\n">>
BlankLine   == <<"\n\n">>

\* `[文档 ${index + 1}]` for the 0-based array index
DocLabelZeroBased(index) == <<"[DOC ", ToString(index), "]">>
DocLabel(index) == <<"[DOC ", ToString(index + 1), "]">>

\* the .map() callback: `[文档 ${index + 1}]\n${doc.content}`
SectionOf(doc, index) == DocLabel(index) \o NL \o doc.content

\* retrievedDocs.map(...).join("\n\n")
ContextSections(docs) ==
  Join([i \in 1..Len(docs) |-> SectionOf(docs[i], i - 1)], BlankLine)

\* the template literal shared by both prompt builders
Template(query, docs) ==
  TplHeader \o ContextSections(docs) \o TplQuestion \o query \o TplSuffix

\* textSplitter.ts buildPrompt: no special case for an empty docs
buildPrompt(query, retrievedDocs) == Template(query, retrievedDocs)

\* ragModel.ts buildRAGPrompt: an empty docs returns the query itself
BuildRAGPromptNoBypass(query, retrievedDocs) == Template(query, retrievedDocs)
buildRAGPrompt(query, retrievedDocs) ==
  IF Len(retrievedDocs) = 0 THEN query ELSE Template(query, retrievedDocs)

\* ------------------------------------------------------------ RAG options
\* An optional field of RAGModelOptions is <<>> (undefined) or <<value>>.
Given(field) == field # <<>>

\* RAGModel constructor: enableRAG !== false, ragThreshold || 0
ConstructOptions(options) ==
  [enableRAG    |-> options.enableRAG # <<FALSE>>,
   ragThreshold |-> IF Given(options.ragThreshold) THEN options.ragThreshold[1] ELSE 0]

\* updateRAGOptions: only the fields that are not undefined are assigned
UpdatedOptions(cur, options) ==
  [enableRAG    |-> IF Given(options.enableRAG)
                    THEN options.enableRAG[1] ELSE cur.enableRAG,
   ragThreshold |-> IF Given(options.ragThreshold)
                    THEN options.ragThreshold[1] ELSE cur.ragThreshold]

\* shouldUseRAG(message) under the options opt
ShouldUseRAGStrict(opt, message) ==
  IF ~opt.enableRAG THEN FALSE
  ELSE IF opt.ragThreshold > 0 THEN Len(message) > opt.ragThreshold
  ELSE TRUE
ShouldUseRAG(opt, message) ==
  IF ~opt.enableRAG THEN FALSE
  ELSE IF opt.ragThreshold > 0 THEN Len(message) >= opt.ragThreshold
  ELSE TRUE

\* ------------------------------------------------------- message formats
SystemPrompt == <<"SYSTEM">>

SystemMessage(content) == [type |-> "system", content |-> content]
HumanMessage(content)  == [type |-> "human", content |-> content]
AIMessage(content)     == [type |-> "ai", content |-> content, tool_calls |-> <<>>]
ToolMessage(content, id) ==
  [type |-> "tool", content |-> content, tool_call_id |-> id]

RECURSIVE ConvertTurns(_)
\* the forEach of convertToLangChainMessages: other roles push nothing
ConvertTurns(msgs) ==
  IF msgs = <<>> THEN <<>>
  ELSE LET msg == Head(msgs)
           one == IF msg.role = "user" THEN <<HumanMessage(msg.content)>>
                  ELSE IF msg.role = "assistant" THEN <<AIMessage(msg.content)>>
                  ELSE <<>>
       IN one \o ConvertTurns(Tail(msgs))

ConvertSystemLast(msgs) == ConvertTurns(msgs) \o <<SystemMessage(SystemPrompt)>>
convertToLangChainMessages(msgs) ==
  <<SystemMessage(SystemPrompt)>> \o ConvertTurns(msgs)

\* ------------------------------------------------------------- retrieval
\* A query response of the vector store: ids[0], documents[0], metadatas[0];
\* an entry of documents/metadatas is [null |-> TRUE] or [value |-> v].
IsNull(entry) == "null" \in DOMAIN entry
NullEntry == [null |-> TRUE]
EmptyMetadata == <<>>

\* searchSimilarDocuments 394-408: one Document per returned id
documentsOf(results) ==
  [i \in 1..Len(results.ids) |->
     [pageContent |-> IF i <= Len(results.documents) /\ ~IsNull(results.documents[i])
                      THEN results.documents[i].value ELSE <<>>,
      metadata    |-> IF i <= Len(results.metadatas) /\ ~IsNull(results.metadatas[i])
                      THEN results.metadatas[i].value ELSE EmptyMetadata]]

\* Array.prototype.filter
RECURSIVE SelectDocs(_)
SelectDocs(ds) ==
  IF ds = <<>> THEN <<>>
  ELSE IF Head(ds).pageContent # <<>>
       THEN <<Head(ds)>> \o SelectDocs(Tail(ds))
       ELSE SelectDocs(Tail(ds))

\* enhanceMessageWithRAG 141-158 on the value returned by searchSimilarDocuments:
\* [array |-> FALSE] is a value that is no array
enhancedOf(message, retrievedDocs) ==
  IF ~retrievedDocs.array THEN message
  ELSE LET valid == SelectDocs(retrievedDocs.docs)
       IN buildRAGPrompt(message,
            [i \in 1..Len(valid) |->
               [content  |-> valid[i].pageContent,
                metadata |-> valid[i].metadata]])

\* [...messages.slice(0, -1), { role: "user", content: enhancedContent }]
enhancedMessagesAll(msgs, enhancedContent) ==
  [i \in 1..Len(msgs) |-> [role |-> "user", content |-> enhancedContent]]
enhancedMessages(msgs, enhancedContent) ==
  SubSeq(msgs, 1, Len(msgs) - 1) \o <<[role |-> "user", content |-> enhancedContent]>>

\* ----------------------------------------------------------------- tools
\* names registered by the constructor from getTools() (tools/index.ts 34-36)
ToolNames == {"get_current_time", "get_current_timestamp"}

\* toolMap.get(name) is defined
InToolMap(name) == name \in ToolNames

RECURSIVE NextResolvable(_, _)
\* the for-of loop of executeToolCalls runs on, pushing nothing, until a call
\* whose tool is in the map: the index of that call, or Len(toolCalls) + 1
NextResolvable(toolCalls, i) ==
  IF i > Len(toolCalls) THEN i
  ELSE IF InToolMap(toolCalls[i].name) THEN i
  ELSE NextResolvable(toolCalls, i + 1)

\* String(error) and error.message of a thrown Error
ErrorString(error) == <<"Error: ">> \o error.message

\* the ToolMessage pushed for a call: String(result), or `Error: ${message}`
ToolFailureRaw(toolCall, error) == ToolMessage(error.message, toolCall.id)
ToolSuccess(toolCall, result) == ToolMessage(result, toolCall.id)
ToolFailure(toolCall, error) ==
  ToolMessage(<<"Error: ">> \o error.message, toolCall.id)

\* langchainMessages = [...langchainMessages, response, ...toolMessages]
ExtendedHistoryResultsFirst(history, resp, toolMsgs) == history \o toolMsgs \o <<resp>>
ExtendedHistory(history, resp, toolMsgs) == history \o <<resp>> \o toolMsgs

\* ---------------------------------------------------------------- frames
\* `data: ${payload}\n\n`; a payload is JSON.stringify(chunk) or the sentinel
JSONPayload(chunk) == [json |-> chunk]
DonePayload == [literal |-> "[DONE]"]
SSE(payload) == [field |-> "data", payload |-> payload, end |-> "\n\n"]

ContentChunk(content)  == [type |-> "content", content |-> content]
ThinkingChunk(content) == [type |-> "thinking", content |-> content]
ErrorChunk(text)       == [type |-> "error", error |-> text]

\* operations on the ReadableStream controller, in call order
Enqueue(frame) == [op |-> "enqueue", frame |-> frame]
Close == [op |-> "close"]

\* `typeof content === "string" && content`
HasText(fragment) == fragment.isString /\ fragment.content # <<>>

\* chunkAny.reasoning_content || chunkAny.thinking (<<>> is absent or falsy)
ThinkingOf(fragment) ==
  IF fragment.reasoning_content # <<>> THEN fragment.reasoning_content
  ELSE fragment.thinking

\* chunks of one fragment on the no-tool branch and in streamChat
ChunksOfFragmentThinkingFirst(fragment) ==
  IF HasText(fragment)
  THEN (IF ThinkingOf(fragment) # <<>> THEN <<ThinkingChunk(ThinkingOf(fragment))>>
        ELSE <<>>) \o <<ContentChunk(fragment.content)>>
  ELSE <<>>
ChunksOfFragment(fragment) ==
  IF HasText(fragment)
  THEN <<ContentChunk(fragment.content)>> \o
       (IF ThinkingOf(fragment) # <<>> THEN <<ThinkingChunk(ThinkingOf(fragment))>>
        ELSE <<>>)
  ELSE <<>>

\* chunks of one fragment on the tool branch: content only
ChunksOfFinalFragmentWithThinking(fragment) == ChunksOfFragment(fragment)
ChunksOfFinalFragment(fragment) ==
  IF HasText(fragment) THEN <<ContentChunk(fragment.content)>> ELSE <<>>

\* controller.enqueue(encoder.encode(`data: ${JSON.stringify(chunk)}\n\n`)) per chunk
EnqueueAll(chunkSeq) ==
  [i \in 1..Len(chunkSeq) |-> Enqueue(SSE(JSONPayload(chunkSeq[i])))]

\* lines 259-260: the sentinel, then close
FinishOps == <<Enqueue(SSE(DonePayload)), Close>>

\* lines 261-272: the catch block
CatchOpsWithSentinel(error) ==
  <<Enqueue(SSE(JSONPayload(ErrorChunk(ErrorString(error))))),
    Enqueue(SSE(DonePayload)), Close>>
CatchOpsNoClose(error) ==
  <<Enqueue(SSE(JSONPayload(ErrorChunk(ErrorString(error)))))>>
CatchOps(error) ==
  <<Enqueue(SSE(JSONPayload(ErrorChunk(ErrorString(error))))), Close>>

\* ----------------------------------------------------------------- state
VARIABLES
  ragOptions,         \* RAGModel.ragOptions: enableRAG, ragThreshold
  configured,         \* the enableRAG / ragThreshold the caller last asked for
  entry,              \* the RAGModel method under way: "none" before the call
  pc,                 \* the await the request is suspended at
  messages,           \* the history passed by the caller
  shouldUse,          \* <<>> or <<b>>: the value shouldUseRAG returned
  searchCalls,        \* calls of searchSimilarDocuments
  retrieval,          \* how the search ended: outcome, whether the store returned
                      \* no id, and how many returned documents have text
  parentCalls,        \* calls of the OllamaModel method: method and history
  promise,            \* the promise returned by the RAGModel method
  httpResponse,       \* <<>> or <<the Response returned by POST /api/chat>>
  langchainMessages,  \* the closure variable of createStreamingResponse
  modelCalls,         \* model.invoke / model.stream calls: mode and history
  response,           \* <<>> or <<the first model response>>
  toolIdx,            \* index of the tool call being awaited
  toolLog,            \* ids of the tool calls invoked, in order
  toolOutcomes,       \* how each invoked tool ended: "returned" or "threw"
  modelFailed,        \* a model call (invoke, stream, iteration) has thrown
  toolMessages,       \* the toolMessages array of executeToolCalls
  fragCount,          \* fragments consumed from the model stream
  chunk,              \* the loop variable of for-await: <<>> outside the loop body
  controller,         \* enqueue / close operations on the response stream
  thrown,             \* <<>> or <<the error caught by the catch block>>
  chunks,             \* chunks delivered to onChunk (streamChat)
  promptIn,           \* prompt assembly: the query and the documents
  promptOut,          \* prompt assembly: the prompt of each builder, <<>> or <<p>>
  optCall,            \* <<>> or <<a recorded shouldUseRAG call>>
  uiMessages,         \* chat UI: the messages state
  input,              \* chat UI: the input state
  isLoading,          \* chat UI: the isLoading state
  uiPc,               \* chat UI: the await handleSubmit is suspended at
  wire,               \* chat UI: the response body, as tokens
  sent,               \* chat UI: how many tokens reader.read() has delivered
  buffer,             \* chat UI: the buffer of handleSubmit
  uiErrors,           \* chat UI: errors thrown for frames of type error (117)
  uiThrown,           \* chat UI: <<>> or <<the error caught by the outer catch>>
  posted,             \* chat UI: the bodies of the requests sent by fetch
  ignored,            \* chat UI: calls of handleSubmit that returned at 27
  queryResult,        \* search: <<>> or <<the response of collection.query>>
  searchOutcome,      \* search: <<>>, or what searchSimilarDocuments settled with
  delivered,          \* chain: chunks delivered to the onChunk of the stream chain
  chainPromise,       \* chain: the promise returned by the chain function
  instanceOf,         \* two requests: the OllamaModel instance each call is made on
  closures,           \* two requests: the langchainMessages variable of each call
  served,             \* two requests: the calls received by the model service
  requests            \* two requests: the state of each createStreamingResponse

ragVars   == <<ragOptions, configured>>
callVars  == <<entry, messages, shouldUse, searchCalls, retrieval, parentCalls, promise,
               httpResponse>>
modelVars == <<langchainMessages, modelCalls, response, toolIdx, toolLog, toolMessages>>
envVars   == <<toolOutcomes, modelFailed>>
outVars   == <<fragCount, chunk, controller, thrown, chunks>>
pureVars  == <<promptIn, promptOut, optCall>>
uiVars    == <<uiMessages, input, isLoading, uiPc, wire, sent, buffer, uiErrors, uiThrown,
               posted, ignored>>
chainVars == <<queryResult, searchOutcome, delivered, chainPromise>>
concVars  == <<instanceOf, closures, served, requests>>
otherVars == <<chainVars, concVars>>
vars == <<ragVars, callVars, modelVars, envVars, outVars, pureVars, uiVars, otherVars, pc>>

\* ----------------------------------------------------------- environment
UserTexts == {<<"a">>, <<"a", "b">>}
Turns == {[role |-> "user", content |-> c] : c \in UserTexts}
           \cup {[role |-> "assistant", content |-> <<"z">>]}
Histories == UNION {[1..n -> Turns] : n \in 0..MaxHistory}

Optional(S) == {<<>>} \cup {<<v>> : v \in S}
PipelineOptions == [enableRAG : Optional(BOOLEAN), ragThreshold : Optional({0, 2})]
OptionSpace == [enableRAG : Optional(BOOLEAN), ragThreshold : Optional(-1..MaxThreshold)]

Errors == {[message |-> <<"boom">>]}

\* what collection.query can resolve to: up to MaxDocs ids, documents and
\* metadatas possibly shorter than ids, entries possibly null or empty
QueryResults ==
  UNION {[ids : {[i \in 1..n |-> i]},
          documents : UNION {[1..m -> {NullEntry, [value |-> <<>>], [value |-> <<"x">>]}]
                               : m \in 0..n},
          metadatas : {[i \in 1..m |-> NullEntry] : m \in {0, n}}
                        \cup {[i \in 1..n |-> [value |-> <<"m">>]]}]
         : n \in 0..MaxDocs}

CallNames == {"get_current_time", "no_such_tool"}
ToolCallSeqs ==
  UNION {{[i \in 1..n |-> [name |-> names[i], id |-> i]] : names \in [1..n -> CallNames]}
         : n \in 0..MaxToolCalls}
Responses == {[type |-> "ai", content |-> <<"first">>, tool_calls |-> calls]
               : calls \in ToolCallSeqs}
ToolResults == {<<"ok">>}

\* a tool call requested by a fragment of a stream (AIMessageChunk.tool_calls)
StreamedToolCall == [name |-> "get_current_time", id |-> MaxToolCalls + 1]

\* the k-th fragment of a stream: its text, when it has one, is its number;
\* a fragment may carry no text, or a content that is no string, and it may
\* request a tool call
Fragments(k) ==
  [isString : {TRUE}, content : {<<ToString(k)>>},
   reasoning_content : {<<>>, <<"r">>}, thinking : {<<>>, <<"t">>},
   tool_calls : {<<>>}]
  \cup {[isString |-> TRUE, content |-> <<>>, reasoning_content |-> <<>>,
          thinking |-> <<"t">>, tool_calls |-> <<>>],
         [isString |-> FALSE, content |-> <<ToString(k)>>, reasoning_content |-> <<"r">>,
          thinking |-> <<>>, tool_calls |-> <<>>],
         [isString |-> TRUE, content |-> <<ToString(k)>>, reasoning_content |-> <<>>,
          thinking |-> <<>>, tool_calls |-> <<StreamedToolCall>>]}

\* ------------------------------------------------------------------ Init
\* what the caller of the constructor asked for: enableRAG defaults to true
\* and an absent threshold is 0 (RAGModelOptions, ragModel.ts 19-20)
ConfiguredAtConstruction(options) ==
  [enableRAG    |-> IF Given(options.enableRAG) THEN options.enableRAG[1] ELSE TRUE,
   ragThreshold |-> IF Given(options.ragThreshold) THEN options.ragThreshold[1] ELSE 0,
   via          |-> "constructor"]

\* no second pair of requests is modelled
ConcIdle ==
  /\ instanceOf = <<>> /\ closures = <<>> /\ served = <<>> /\ requests = <<>>

\* no call of the pipeline under way
CallIdle ==
  /\ entry = "none" /\ pc = "idle"
  /\ shouldUse = <<>> /\ searchCalls = 0
  /\ retrieval = [outcome |-> "none", empty |-> TRUE, usable |-> 0]
  /\ parentCalls = <<>> /\ promise = "none" /\ httpResponse = <<>>
  /\ langchainMessages = <<>> /\ modelCalls = <<>> /\ response = <<>>
  /\ toolIdx = 0 /\ toolLog = <<>> /\ toolMessages = <<>>
  /\ toolOutcomes = <<>> /\ modelFailed = FALSE
  /\ fragCount = 0 /\ chunk = <<>> /\ controller = <<>> /\ thrown = <<>> /\ chunks = <<>>
  /\ queryResult = <<>> /\ searchOutcome = <<>>
  /\ delivered = <<>> /\ chainPromise = "none"

RequestIdleOnly == CallIdle /\ ConcIdle

\* the chat UI before any submit, with an empty conversation
UiIdle ==
  /\ uiMessages = <<>> /\ input = <<>> /\ isLoading = FALSE /\ uiPc = "idle"
  /\ wire = <<>> /\ sent = 0 /\ buffer = <<>> /\ uiErrors = <<>> /\ uiThrown = <<>>
  /\ posted = <<>> /\ ignored = 0

\* no request under way and an untouched chat UI
RequestIdle == RequestIdleOnly /\ UiIdle

PureIdle ==
  /\ promptIn = [query |-> <<>>, docs |-> <<>>]
  /\ promptOut = [rag |-> <<>>, chain |-> <<>>]
  /\ optCall = <<>>

\* new RAGModel(options), and a history about to be submitted
Init ==
  /\ \E options \in PipelineOptions :
       /\ ragOptions = ConstructOptions(options)
       /\ configured = ConfiguredAtConstruction(options)
  /\ messages \in Histories
  /\ RequestIdle
  /\ PureIdle

\* ------------------------------------------------------ the route's responses
\* new Response(readableStream, { headers }) of the route (61-67)
StreamResponse ==
  [status  |-> 200,
   headers |-> [ContentType |-> "text/event-stream", CacheControl |-> "no-cache",
                Connection |-> "keep-alive"],
   body    |-> [stream |-> TRUE]]

\* new Response(JSON.stringify({ error }), { status: 500, ... }) (70-73)
ErrorResponseOk(error) ==
  [status  |-> 200,
   headers |-> [ContentType |-> "application/json"],
   body    |-> [error |-> error.message]]
ErrorResponse(error) ==
  [status  |-> 500,
   headers |-> [ContentType |-> "application/json"],
   body    |-> [error |-> IF error.message # <<>> THEN error.message
                          ELSE <<"Internal server error">>]]

\* ------------------------------------------------- OllamaModel entry points
LastContent(msgs) == msgs[Len(msgs)].content

\* OllamaModel.createStreamingResponse up to its first await: the history is
\* converted, the stream is constructed and returned, start() calls model.invoke
OllamaCreateStreamingResponse(history) ==
  /\ parentCalls' = Append(parentCalls,
                           [method |-> "createStreamingResponse", messages |-> history])
  /\ langchainMessages' = convertToLangChainMessages(history)
  /\ modelCalls' = Append(modelCalls,
                          [mode |-> "invoke",
                           history |-> convertToLangChainMessages(history)])
  /\ promise' = "resolved"
  /\ httpResponse' = <<StreamResponse>>
  /\ pc' = "invoke"

\* OllamaModel.streamChat up to its first await: model.stream is called
OllamaStreamChat(history) ==
  /\ parentCalls' = Append(parentCalls, [method |-> "streamChat", messages |-> history])
  /\ langchainMessages' = convertToLangChainMessages(history)
  /\ modelCalls' = Append(modelCalls,
                          [mode |-> "stream",
                           history |-> convertToLangChainMessages(history)])
  /\ promise' = "pending"
  /\ pc' = "chat_open"
  /\ UNCHANGED httpResponse

\* super.<method>(history)
Super(method, history) ==
  IF method = "createStreamingResponse"
  THEN OllamaCreateStreamingResponse(history)
  ELSE OllamaStreamChat(history)

\* ------------------------------------------------------- POST /api/chat
\* RAGModel.createStreamingResponse is called by the route only, after
\* `await req.json()` returned the messages: RagCall below is that call, and
\* the promise it returns is the one the route awaits.

\* the catch of the route (68-74): the error response is returned, no stream
RouteCatch(error) ==
  /\ pc = "idle"
  /\ entry' = "POST"
  /\ httpResponse' = <<ErrorResponse(error)>>
  /\ pc' = "done"
  /\ UNCHANGED <<ragVars, messages, shouldUse, searchCalls, retrieval, parentCalls,
                 promise, modelVars, envVars, outVars, pureVars, uiVars, otherVars>>

\* `await req.json()` rejects: the body is no JSON
PostBodyThrows(error) == RouteCatch(error)

\* the body is JSON without `messages`: `messages[messages.length - 1]`
\* (ragModel.ts 211) throws a TypeError and createStreamingResponse rejects
TypeErrorOfUndefined == [message |-> <<"TypeError">>]
PostWithoutMessages == RouteCatch(TypeErrorOfUndefined)

\* ------------------------------------------------------- RAGModel actions
\* updateRAGOptions(options), on a model that serves no request yet
UpdateRAGOptions(options) ==
  /\ pc = "idle"
  /\ ragOptions' = UpdatedOptions(ragOptions, options)
  /\ configured' = [enableRAG    |-> IF Given(options.enableRAG)
                                     THEN options.enableRAG[1] ELSE configured.enableRAG,
                    ragThreshold |-> IF Given(options.ragThreshold)
                                     THEN options.ragThreshold[1]
                                     ELSE configured.ragThreshold,
                    via          |-> "updateRAGOptions"]
  /\ UNCHANGED <<callVars, modelVars, envVars, outVars, pureVars, uiVars, otherVars,
                 pc>>

\* the condition of streamChat 180-184 / createStreamingResponse 213-217
WantsRAGWhateverTheRule(opt, msgs) ==
  /\ Len(msgs) > 0
  /\ msgs[Len(msgs)].role = "user"
WantsRAG(opt, msgs) ==
  /\ Len(msgs) > 0
  /\ msgs[Len(msgs)].role = "user"
  /\ ShouldUseRAG(opt, LastContent(msgs))

\* RAGModel.streamChat / RAGModel.createStreamingResponse up to the first await
RagCall(method) ==
  /\ pc = "idle"
  /\ entry' = method
  /\ shouldUse' = IF Len(messages) > 0 /\ messages[Len(messages)].role = "user"
                  THEN <<ShouldUseRAG(ragOptions, LastContent(messages))>>
                  ELSE <<>>
  /\ IF WantsRAG(ragOptions, messages)
     THEN \* enhanceMessageWithRAG calls searchSimilarDocuments, which awaits embedQuery
          /\ searchCalls' = searchCalls + 1
          /\ retrieval' = [retrieval EXCEPT !.outcome = "pending"]
          /\ promise' = "pending"
          /\ pc' = "embed"
          /\ UNCHANGED <<parentCalls, modelVars, httpResponse>>
     ELSE /\ Super(method, messages)
          /\ UNCHANGED <<searchCalls, retrieval, response, toolIdx, toolLog,
                         toolMessages>>
  /\ UNCHANGED <<ragVars, messages, envVars, outVars, pureVars, uiVars, otherVars>>

\* the rest of the RAGModel method once enhanceMessageWithRAG has returned
Delegate(enhancedContent) ==
  /\ Super(entry, enhancedMessages(messages, enhancedContent))
  /\ UNCHANGED <<ragVars, entry, messages, shouldUse, searchCalls, response, toolIdx,
                 toolLog, toolMessages, envVars, outVars, pureVars, uiVars,
                 otherVars>>

\* the catch of enhanceMessageWithRAG 159-167: the original message is returned
contentAfterFailure(message) == message

\* searchSimilarDocuments rethrows (418); enhanceMessageWithRAG catches
SearchThrowsUncaught ==
  /\ retrieval' = [retrieval EXCEPT !.outcome = "threw"]
  /\ promise' = "rejected"
  /\ pc' = "done"
  /\ UNCHANGED <<ragVars, entry, messages, shouldUse, searchCalls, parentCalls,
                 httpResponse, modelVars, envVars, outVars, pureVars, uiVars,
                 otherVars>>
SearchThrowsRetries ==
  /\ retrieval' = [retrieval EXCEPT !.outcome = "pending"]
  /\ searchCalls' = searchCalls + 1
  /\ pc' = "embed"
  /\ UNCHANGED <<ragVars, entry, messages, shouldUse, parentCalls, promise,
                 httpResponse, modelVars, envVars, outVars, pureVars, uiVars,
                 otherVars>>
SearchThrows ==
  /\ retrieval' = [retrieval EXCEPT !.outcome = "threw"]
  /\ Delegate(contentAfterFailure(LastContent(messages)))

\* await embedQuery(...)
EmbedReturns ==
  /\ pc = "embed"
  /\ pc' = "collection"
  /\ UNCHANGED <<ragVars, callVars, modelVars, envVars, outVars, pureVars, uiVars,
                 otherVars>>

EmbedThrows ==
  /\ pc = "embed"
  /\ SearchThrows

\* await client.getCollection(...)
CollectionReturns ==
  /\ pc = "collection"
  /\ pc' = "query"
  /\ UNCHANGED <<ragVars, callVars, modelVars, envVars, outVars, pureVars, uiVars,
                 otherVars>>

CollectionThrows ==
  /\ pc = "collection"
  /\ SearchThrows

\* await collection.query(...) resolves: the documents are built and returned,
\* the message is enhanced and the parent method is called
QueryReturns(results) ==
  /\ pc = "query"
  /\ retrieval' =
       [outcome |-> "returned",
        empty   |-> Len(results.ids) = 0,
        usable  |-> Cardinality({i \in 1..Len(results.documents) :
                                   /\ ~IsNull(results.documents[i])
                                   /\ results.documents[i].value # <<>>})]
  /\ Delegate(enhancedOf(LastContent(messages),
                         [array |-> TRUE, docs |-> documentsOf(results)]))

QueryThrows ==
  /\ pc = "query"
  /\ SearchThrows

\* ------------------------------- OllamaModel.createStreamingResponse: start()
ToolCalls == response[1].tool_calls

\* the fragment of the current loop iteration requests a tool call
HasStreamedToolCalls == chunk # <<>> /\ chunk[1].tool_calls # <<>>

\* `responseAny.tool_calls && responseAny.tool_calls.length > 0`
OnToolBranch == response # <<>> /\ Len(response[1].tool_calls) > 0

\* the catch block 261-272
Catch(error) ==
  /\ thrown' = <<error>>
  /\ controller' = controller \o CatchOps(error)
  /\ pc' = "done"

\* model.stream(langchainMessages) is called with the given history
CallStream(history) ==
  /\ modelCalls' = Append(modelCalls, [mode |-> "stream", history |-> history])
  /\ pc' = "open"

\* executeToolCalls continues from call i with the results collected so far:
\* either it awaits the next resolvable tool, or it returns and the final
\* stream is requested over the extended history (206-216)
ContinueToolsFanOut(resp, i, collected) ==
  LET j == NextResolvable(resp.tool_calls, i)
      rest == SelectSeq(SubSeq(resp.tool_calls, j, Len(resp.tool_calls)),
                        LAMBDA c : InToolMap(c.name))
  IN /\ toolMessages' = collected
     /\ toolIdx' = j
     /\ IF j <= Len(resp.tool_calls)
        THEN /\ toolLog' = toolLog \o [k \in 1..Len(rest) |-> rest[k].id]
             /\ pc' = "tool"
             /\ UNCHANGED <<langchainMessages, modelCalls>>
        ELSE /\ langchainMessages' = ExtendedHistory(langchainMessages, resp, collected)
             /\ CallStream(ExtendedHistory(langchainMessages, resp, collected))
             /\ UNCHANGED toolLog
ContinueTools(resp, i, collected) ==
  LET j == NextResolvable(resp.tool_calls, i)
  IN /\ toolMessages' = collected
     /\ toolIdx' = j
     /\ IF j <= Len(resp.tool_calls)
        THEN /\ toolLog' = Append(toolLog, resp.tool_calls[j].id)
             /\ pc' = "tool"
             /\ UNCHANGED <<langchainMessages, modelCalls>>
        ELSE /\ langchainMessages' = ExtendedHistory(langchainMessages, resp, collected)
             /\ CallStream(ExtendedHistory(langchainMessages, resp, collected))
             /\ UNCHANGED toolLog

\* await model.invoke(langchainMessages) resolves
InvokeReturnsEchoesFirst(resp) ==
  /\ pc = "invoke"
  /\ response' = <<resp>>
  /\ IF Len(resp.tool_calls) > 0
     THEN ContinueTools(resp, 1, <<>>) /\ UNCHANGED controller
     ELSE /\ controller' = controller \o EnqueueAll(<<ContentChunk(resp.content)>>)
          /\ CallStream(langchainMessages)
          /\ UNCHANGED <<langchainMessages, toolIdx, toolLog, toolMessages>>
  /\ UNCHANGED <<ragVars, callVars, envVars, fragCount, chunk, thrown, chunks,
                 pureVars, uiVars, otherVars>>
InvokeReturns(resp) ==
  /\ pc = "invoke"
  /\ response' = <<resp>>
  /\ IF Len(resp.tool_calls) > 0
     THEN ContinueTools(resp, 1, <<>>)
     ELSE /\ CallStream(langchainMessages)
          /\ UNCHANGED <<langchainMessages, toolIdx, toolLog, toolMessages>>
  /\ UNCHANGED <<ragVars, callVars, envVars, outVars, pureVars, uiVars, otherVars>>

InvokeThrows(error) ==
  /\ pc = "invoke"
  /\ Catch(error)
  /\ modelFailed' = TRUE
  /\ UNCHANGED <<ragVars, callVars, modelVars, toolOutcomes, fragCount, chunk, chunks,
                 pureVars, uiVars, otherVars>>

\* await tool.invoke(...) resolves for call toolIdx
ToolReturns(result) ==
  /\ pc = "tool"
  /\ ContinueTools(response[1], toolIdx + 1,
                   Append(toolMessages, ToolSuccess(ToolCalls[toolIdx], result)))
  /\ toolOutcomes' = Append(toolOutcomes, "returned")
  /\ UNCHANGED <<ragVars, callVars, response, modelFailed, outVars, pureVars, uiVars,
                 otherVars>>

\* await tool.invoke(...) rejects for call toolIdx: caught per call (180-189)
ToolThrows(error) ==
  /\ pc = "tool"
  /\ ContinueTools(response[1], toolIdx + 1,
                   Append(toolMessages, ToolFailure(ToolCalls[toolIdx], error)))
  /\ toolOutcomes' = Append(toolOutcomes, "threw")
  /\ UNCHANGED <<ragVars, callVars, response, modelFailed, outVars, pureVars, uiVars,
                 otherVars>>

\* await model.stream(...) resolves (216 / 229)
OpenReturns ==
  /\ pc = "open"
  /\ pc' = "read"
  /\ UNCHANGED <<ragVars, callVars, modelVars, envVars, outVars, pureVars, uiVars,
                 otherVars>>

OpenThrows(error) ==
  /\ pc = "open"
  /\ Catch(error)
  /\ modelFailed' = TRUE
  /\ UNCHANGED <<ragVars, callVars, modelVars, toolOutcomes, fragCount, chunk, chunks,
                 pureVars, uiVars, otherVars>>

\* one iteration of the for-await loop (217-226 / 230-256)
ReadFragment(frag) ==
  /\ pc = "read"
  /\ fragCount < MaxFragments
  /\ fragCount' = fragCount + 1
  /\ chunk' = <<frag>>
  /\ controller' = controller \o
       EnqueueAll(IF OnToolBranch THEN ChunksOfFinalFragment(frag)
                  ELSE ChunksOfFragment(frag))
  /\ UNCHANGED <<ragVars, callVars, modelVars, envVars, thrown, chunks, pureVars,
                 uiVars, otherVars, pc>>

\* the model stream ends: the sentinel is enqueued and the stream closed (259-260)
ReadEndsAgentLoop ==
  /\ pc = "read"
  /\ chunk' = <<>>
  /\ IF HasStreamedToolCalls
     THEN /\ modelCalls' = Append(modelCalls,
                                  [mode |-> "invoke", history |-> langchainMessages])
          /\ pc' = "invoke"
          /\ UNCHANGED controller
     ELSE /\ controller' = controller \o FinishOps
          /\ pc' = "done"
          /\ UNCHANGED modelCalls
  /\ UNCHANGED <<ragVars, callVars, langchainMessages, response, toolIdx, toolLog,
                 toolMessages, envVars, fragCount, thrown, chunks, pureVars, uiVars,
                 otherVars>>
ReadEnds ==
  /\ pc = "read"
  /\ controller' = controller \o FinishOps
  /\ chunk' = <<>>
  /\ pc' = "done"
  /\ UNCHANGED <<ragVars, callVars, modelVars, envVars, fragCount, thrown, chunks,
                 pureVars, uiVars, otherVars>>

\* the model stream throws while it is consumed
ReadThrows(error) ==
  /\ pc = "read"
  /\ Catch(error)
  /\ chunk' = <<>>
  /\ modelFailed' = TRUE
  /\ UNCHANGED <<ragVars, callVars, modelVars, toolOutcomes, fragCount, chunks,
                 pureVars, uiVars, otherVars>>

\* --------------------------------------------------- OllamaModel.streamChat
\* the catch block 110-116: one error chunk, and the promise resolves
ChatCatchRethrows(error) ==
  /\ chunks' = chunks
  /\ promise' = "rejected"
  /\ pc' = "done"
ChatCatch(error) ==
  /\ chunks' = Append(chunks, ErrorChunk(error.message))
  /\ promise' = "resolved"
  /\ pc' = "done"

\* the chunks the onChunk of executeRetrievalChainStream passes on (235-241):
\* content and error chunks, rebuilt from their content / error field
RECURSIVE ForwardedChunks(_)
ForwardedChunks(cs) ==
  IF cs = <<>> THEN <<>>
  ELSE LET c == Head(cs)
       IN (IF c.type = "content" THEN <<[type |-> "content", content |-> c.content]>>
           ELSE IF c.type = "error" THEN <<[type |-> "error", error |-> c.error]>>
           ELSE <<>>) \o ForwardedChunks(Tail(cs))

\* streamChat hands the chunks cs to the onChunk of its caller and, when
\* `returned`, resolves: the callback of executeRetrievalChainStream passes
\* them on to its own onChunk and the chain resolves (233-242); the callback
\* of executeRetrievalChain rejects the chain on an error chunk (156-165)
ChainOnChunkRaises(cs, returned) ==
  IF entry = "executeRetrievalChainStream"
  THEN /\ delivered' =
            delivered \o ForwardedChunks(cs) \o
              SelectSeq(ForwardedChunks(cs), LAMBDA c : c.type = "error")
       /\ chainPromise' = IF returned THEN "resolved" ELSE chainPromise
  ELSE UNCHANGED <<delivered, chainPromise>>
ChainOnChunk(cs, returned) ==
  IF entry = "executeRetrievalChainStream"
  THEN /\ delivered' = delivered \o ForwardedChunks(cs)
       /\ chainPromise' = IF returned THEN "resolved" ELSE chainPromise
  ELSE IF entry = "executeRetrievalChain"
  THEN /\ chainPromise' = IF \E i \in 1..Len(cs) : cs[i].type = "error" THEN "rejected"
                          ELSE IF returned THEN "resolved" ELSE chainPromise
       /\ UNCHANGED delivered
  ELSE UNCHANGED <<delivered, chainPromise>>

\* await this.model.stream(...) resolves (89)
ChatOpenReturns ==
  /\ pc = "chat_open"
  /\ pc' = "chat_read"
  /\ UNCHANGED <<ragVars, callVars, modelVars, envVars, outVars, pureVars, uiVars,
                 otherVars>>

ChatOpenThrows(error) ==
  /\ pc = "chat_open"
  /\ ChatCatch(error)
  /\ ChainOnChunk(<<ErrorChunk(error.message)>>, TRUE)
  /\ modelFailed' = TRUE
  /\ UNCHANGED <<ragVars, entry, messages, shouldUse, searchCalls, retrieval,
                 parentCalls, httpResponse, modelVars, toolOutcomes, fragCount, chunk,
                 controller, thrown, pureVars, uiVars, queryResult, searchOutcome,
                 concVars>>

\* one iteration of the for-await loop (91-109)
ChatReadFragment(frag) ==
  /\ pc = "chat_read"
  /\ fragCount < MaxFragments
  /\ fragCount' = fragCount + 1
  /\ chunk' = <<frag>>
  /\ chunks' = chunks \o ChunksOfFragment(frag)
  /\ ChainOnChunk(ChunksOfFragment(frag), FALSE)
  /\ UNCHANGED <<ragVars, callVars, modelVars, envVars, controller, thrown, pureVars,
                 uiVars, queryResult, searchOutcome, concVars, pc>>

\* the model stream ends: streamChat returns
ChatReadEnds ==
  /\ pc = "chat_read"
  /\ promise' = "resolved"
  /\ ChainOnChunk(<<>>, TRUE)
  /\ chunk' = <<>>
  /\ pc' = "done"
  /\ UNCHANGED <<ragVars, entry, messages, shouldUse, searchCalls, retrieval,
                 parentCalls, httpResponse, modelVars, envVars, fragCount, controller,
                 thrown, chunks, pureVars, uiVars, queryResult, searchOutcome,
                 concVars>>

ChatReadThrows(error) ==
  /\ pc = "chat_read"
  /\ ChatCatch(error)
  /\ ChainOnChunk(<<ErrorChunk(error.message)>>, TRUE)
  /\ chunk' = <<>>
  /\ modelFailed' = TRUE
  /\ UNCHANGED <<ragVars, entry, messages, shouldUse, searchCalls, retrieval,
                 parentCalls, httpResponse, modelVars, toolOutcomes, fragCount,
                 controller, thrown, pureVars, uiVars, queryResult, searchOutcome,
                 concVars>>

\* -------------------------------------------------------- specification
Methods == {"createStreamingResponse", "streamChat"}

Next ==
  \/ \E error \in Errors : PostBodyThrows(error)
  \/ PostWithoutMessages
  \/ \E method \in Methods : RagCall(method)
  \/ EmbedReturns
  \/ EmbedThrows
  \/ CollectionReturns
  \/ CollectionThrows
  \/ \E results \in QueryResults : QueryReturns(results)
  \/ QueryThrows
  \/ \E resp \in Responses : InvokeReturns(resp)
  \/ \E error \in Errors : InvokeThrows(error)
  \/ \E result \in ToolResults : ToolReturns(result)
  \/ \E error \in Errors : ToolThrows(error)
  \/ OpenReturns
  \/ \E error \in Errors : OpenThrows(error)
  \/ \E frag \in Fragments(fragCount + 1) : ReadFragment(frag)
  \/ ReadEnds
  \/ \E error \in Errors : ReadThrows(error)
  \/ ChatOpenReturns
  \/ \E error \in Errors : ChatOpenThrows(error)
  \/ \E frag \in Fragments(fragCount + 1) : ChatReadFragment(frag)
  \/ ChatReadEnds
  \/ \E error \in Errors : ChatReadThrows(error)

Spec == Init /\ [][Next]_vars

\* every awaited call returns or throws: a step that is enabled is taken
LiveSpec == Spec /\ WF_vars(Next)

\* ------------------------------------------------ observations of a request
\* the frames of the response body, in the order they were enqueued
Body ==
  LET ops == SelectSeq(controller, LAMBDA o : o.op = "enqueue")
  IN [i \in 1..Len(ops) |-> ops[i].frame]

CloseCount == Cardinality({i \in 1..Len(controller) : controller[i].op = "close"})

IsDoneFrame(frame) == frame.payload = DonePayload
IsJSONFrame(frame) == "json" \in DOMAIN frame.payload
IsTypeFrame(frame, type) == IsJSONFrame(frame) /\ frame.payload.json.type = type
IsTextFrame(frame) == IsTypeFrame(frame, "content") \/ IsTypeFrame(frame, "thinking")

DoneFrames  == {i \in 1..Len(Body) : IsDoneFrame(Body[i])}
ErrorFrames == {i \in 1..Len(Body) : IsTypeFrame(Body[i], "error")}

\* OllamaModel.createStreamingResponse has run to its end
StreamFinished == pc = "done" /\ entry = "createStreamingResponse"

\* the stream was handed out: the parent createStreamingResponse was called
StreamCreated ==
  Len(parentCalls) > 0 /\ parentCalls[1].method = "createStreamingResponse"

ParentCalled == Len(parentCalls) > 0
LastIsUser == Len(messages) > 0 /\ messages[Len(messages)].role = "user"

\* C1: every frame of the body is a `data:` frame that carries the sentinel or
\* a JSON chunk of type content, thinking or error; the sentinel is present at
\* the end of a run iff no error was thrown; when an error was thrown the body
\* holds exactly one error frame and no sentinel.
C1_Framing ==
  /\ \A i \in 1..Len(Body) :
       /\ Body[i].field = "data" /\ Body[i].end = "\n\n"
       /\ \/ IsDoneFrame(Body[i])
          \/ /\ IsJSONFrame(Body[i])
             /\ Body[i].payload.json.type \in {"content", "thinking", "error"}
  /\ Cardinality(DoneFrames) <= 1
  /\ Cardinality(ErrorFrames) = (IF thrown # <<>> THEN 1 ELSE 0)
  /\ thrown # <<>> => DoneFrames = {}
  /\ StreamFinished => (DoneFrames # {} <=> thrown = <<>>)
  /\ entry = "createStreamingResponse" => (modelFailed <=> thrown # <<>>)

\* C1 witness: the final stream threw after two content frames were sent
C1_Witness ==
  /\ StreamFinished /\ thrown # <<>> /\ OnToolBranch
  /\ Len(Body) = 3 /\ IsTypeFrame(Body[1], "content") /\ IsTypeFrame(Body[3], "error")

\* C2: once handed out, the response stream is eventually closed; it is closed
\* at most once, the close is the last operation on it, and at the end its
\* last frame is the sentinel or the single error frame, so nothing is
\* enqueued after the sentinel, the error frame or the close.
C2_ClosesOnce ==
  /\ [](StreamCreated => <>(CloseCount = 1))
  /\ [](/\ CloseCount <= 1
        /\ CloseCount = 1 <=> StreamFinished
        /\ \A i \in 1..Len(controller) :
             controller[i].op = "close" => i = Len(controller)
        /\ \A i \in DoneFrames \cup ErrorFrames : i = Len(Body)
        /\ StreamFinished =>
             /\ Len(Body) > 0
             /\ IsDoneFrame(Body[Len(Body)]) \/ IsTypeFrame(Body[Len(Body)], "error"))

\* C2 witness: a stream closed after content frames and the sentinel
C2_Witness ==
  /\ StreamFinished /\ CloseCount = 1
  /\ Len(Body) = 3 /\ IsDoneFrame(Body[3])
  /\ controller[Len(controller)].op = "close"

\* the declared calls whose tool is registered, in the order requested
ResolvableCalls(calls) == SelectSeq(calls, LAMBDA c : c.name \in ToolNames)

\* C3: on the tool branch the history of the second (streaming) model call is
\* the converted original history, then the assistant tool-call message, then
\* one tool-result entry per resolvable call, in request order, each with the
\* id of its call; an unresolvable call adds no entry and raises no error.
C3_ToolRoundTrip ==
  (OnToolBranch /\ Len(modelCalls) >= 2) =>
    LET base   == convertToLangChainMessages(parentCalls[1].messages)
        h      == modelCalls[2].history
        wanted == ResolvableCalls(ToolCalls)
    IN /\ modelCalls[1] = [mode |-> "invoke", history |-> base]
       /\ modelCalls[2].mode = "stream"
       /\ Len(h) = Len(base) + 1 + Len(wanted)
       /\ SubSeq(h, 1, Len(base)) = base
       /\ h[Len(base) + 1] = response[1]
       /\ \A i \in 1..Len(wanted) :
            /\ h[Len(base) + 1 + i].type = "tool"
            /\ h[Len(base) + 1 + i].tool_call_id = wanted[i].id
       /\ pc = "open" => thrown = <<>> /\ Body = <<>>

\* C3 witness: two declared calls, both resolvable, and the second call made
C3_Witness ==
  /\ OnToolBranch /\ pc = "open"
  /\ Len(ToolCalls) = MaxToolCalls
  /\ Len(ResolvableCalls(ToolCalls)) = MaxToolCalls
  /\ Len(modelCalls) = 2

\* C4: a tool that throws yields exactly one tool-result entry for its call,
\* whose text starts with "Error: "; every resolvable call of the response is
\* still invoked, the streaming model call is still made, and unless a model
\* call fails the stream ends with the sentinel and holds no error frame.
C4_ToolErrorIsResult ==
  /\ Len(toolMessages) = Len(toolOutcomes)
  /\ \A k \in 1..Len(toolOutcomes) :
       /\ toolMessages[k].tool_call_id = toolLog[k]
       /\ toolOutcomes[k] = "threw" => StartsWith(toolMessages[k].content, <<"Error: ">>)
  /\ (OnToolBranch /\ pc \notin {"invoke", "tool"}) =>
       /\ toolLog = [i \in 1..Len(ResolvableCalls(ToolCalls)) |->
                       ResolvableCalls(ToolCalls)[i].id]
       /\ Len(toolOutcomes) = Len(toolLog)
       /\ Len(modelCalls) = 2 /\ modelCalls[2].mode = "stream"
  /\ (StreamFinished /\ OnToolBranch /\ ~modelFailed) =>
       /\ ErrorFrames = {} /\ thrown = <<>>
       /\ Len(Body) > 0 /\ IsDoneFrame(Body[Len(Body)])

\* C4 witness: the first of two tools threw, the second ran, the stream ended
\* with the sentinel
C4_Witness ==
  /\ StreamFinished /\ toolOutcomes = <<"threw", "returned">>
  /\ ~modelFailed /\ IsDoneFrame(Body[Len(Body)])

\* C5: when retrieval throws, the RAGModel method does not reject: the parent
\* method is called, once, with the caller's history, whose last turn has the
\* original content.
C5_RetrievalFailureSwallowed ==
  retrieval.outcome = "threw" =>
    /\ promise # "rejected"
    /\ LastIsUser /\ shouldUse = <<TRUE>>
    /\ Len(parentCalls) = 1
    /\ parentCalls[1].method = entry
    /\ LastContent(parentCalls[1].messages) = LastContent(messages)
    /\ parentCalls[1].messages = messages

\* C5 witness: retrieval threw and the response stream still ended with [DONE]
C5_Witness ==
  /\ retrieval.outcome = "threw" /\ StreamFinished
  /\ ~modelFailed /\ IsDoneFrame(Body[Len(Body)])

\* C7: the history handed to the parent has the length of the input, equals
\* it at every position before the last, and keeps the role of the last turn;
\* the last content is rewritten only after a retrieval with usable
\* documents; without a last user turn no retrieval is made.
C7_OnlyLastUserTurn ==
  /\ searchCalls > 0 => LastIsUser
  /\ ~LastIsUser => searchCalls = 0 /\ retrieval.outcome = "none"
  /\ Len(parentCalls) <= 1
  /\ ParentCalled =>
       LET h == parentCalls[1].messages
           n == Len(messages)
       IN /\ Len(h) = n
          /\ \A i \in 1..(n - 1) : h[i] = messages[i]
          /\ n > 0 => h[n].role = messages[n].role
          /\ ~LastIsUser => h = messages
          /\ (retrieval.outcome = "returned" /\ retrieval.usable > 0) =>
               /\ h[n].role = "user"
               /\ h[n].content # messages[n].content
               /\ EndsWith(h[n].content,
                           TplQuestion \o messages[n].content \o TplSuffix)

\* C7 witness: a two-turn history whose last user turn was rewritten
C7_Witness ==
  /\ ParentCalled /\ Len(messages) = 2
  /\ retrieval.outcome = "returned" /\ retrieval.usable > 0
  /\ LastContent(parentCalls[1].messages) # LastContent(messages)

\* the frames of a finished stream: text frames, then the given last frame
TextFramesThen(isLast(_)) ==
  /\ Len(Body) > 0
  /\ isLast(Body[Len(Body)])
  /\ \A i \in 1..(Len(Body) - 1) : IsTextFrame(Body[i])

\* C8 as stated: when shouldUseRAG is false the parent gets the unmodified
\* history, no retrieval is made, and the finished stream holds only content
\* and thinking frames followed by the sentinel.
C8_AsStated ==
  shouldUse = <<FALSE>> =>
    /\ searchCalls = 0
    /\ ParentCalled => parentCalls[1].messages = messages
    /\ StreamFinished => TextFramesThen(IsDoneFrame)

\* C8 amended: as stated when no model call fails; when a model call fails
\* the finished stream holds content and thinking frames followed by one
\* error frame, and no sentinel.
C8_NoRAGDelegates ==
  shouldUse = <<FALSE>> =>
    /\ searchCalls = 0 /\ retrieval.outcome = "none"
    /\ ParentCalled =>
         /\ parentCalls[1] = [method |-> entry, messages |-> messages]
         /\ modelCalls[1].history = convertToLangChainMessages(messages)
    /\ (StreamFinished /\ ~modelFailed) => TextFramesThen(IsDoneFrame)
    /\ (StreamFinished /\ modelFailed) =>
         /\ TextFramesThen(LAMBDA f : IsTypeFrame(f, "error"))
         /\ DoneFrames = {}

\* C8 witness: RAG enabled, the message shorter than the threshold, and the
\* stream finished with text frames and the sentinel
C8_Witness ==
  /\ shouldUse = <<FALSE>> /\ ragOptions.enableRAG
  /\ StreamFinished /\ ~modelFailed
  /\ Len(Body) = 3 /\ IsDoneFrame(Body[3])

\* C10: when the search returns no document with text (no id at all, or only
\* null or empty documents), the last turn handed to the parent has exactly
\* the original content.
C10_NoUsableDocKeepsQuery ==
  (retrieval.outcome = "returned" /\ retrieval.usable = 0) =>
    /\ ParentCalled
    /\ parentCalls[1].messages = messages
    /\ modelCalls[1].history = convertToLangChainMessages(messages)

\* C10 witness: the store returned ids, none of them with a text
C10_Witness ==
  /\ retrieval.outcome = "returned" /\ ~retrieval.empty /\ retrieval.usable = 0
  /\ ParentCalled /\ LastContent(parentCalls[1].messages) = LastContent(messages)

\* ------------------------------------------------ forwarding of fragments
\* the fragment of the current loop iteration: its text, when it is a
\* non-empty string, and the reasoning/thinking field it carries
HasFragment == chunk # <<>>
CarriesText(f) == f.isString /\ f.content # <<>>
CarriedThinking(f) ==
  IF f.reasoning_content # <<>> THEN f.reasoning_content ELSE f.thinking
CarriesThinking(f) == f.reasoning_content # <<>> \/ f.thinking # <<>>

\* the JSON chunk of a frame of the body
ChunkOfFrame(frame) == frame.payload.json

\* C12: on the tool branch the body never holds a thinking frame, and a
\* fragment with text yields one content frame whatever reasoning/thinking
\* field it carries; on the no-tool branch a fragment with text and a
\* reasoning/thinking field yields a content frame immediately followed by a
\* thinking frame, and one with text only yields a content frame alone.
C12_ForwardingByBranch ==
  entry = "createStreamingResponse" =>
    /\ OnToolBranch => \A i \in 1..Len(Body) : ~IsTypeFrame(Body[i], "thinking")
    /\ (pc = "read" /\ HasFragment /\ CarriesText(chunk[1])) =>
         LET f == chunk[1]
             n == Len(Body)
         IN /\ OnToolBranch =>
                 /\ n >= 1
                 /\ ChunkOfFrame(Body[n]) = [type |-> "content", content |-> f.content]
            /\ (~OnToolBranch /\ CarriesThinking(f)) =>
                 /\ n >= 2
                 /\ ChunkOfFrame(Body[n - 1]) = [type |-> "content", content |-> f.content]
                 /\ ChunkOfFrame(Body[n]) =
                      [type |-> "thinking", content |-> CarriedThinking(f)]
            /\ (~OnToolBranch /\ ~CarriesThinking(f)) =>
                 /\ n >= 1
                 /\ ChunkOfFrame(Body[n]) = [type |-> "content", content |-> f.content]

\* C12 witness: on the tool branch the second fragment carried text and a
\* thinking field, and the body holds two content frames
C12_Witness ==
  /\ entry = "createStreamingResponse" /\ OnToolBranch /\ pc = "read"
  /\ fragCount = 2 /\ CarriesText(chunk[1]) /\ CarriesThinking(chunk[1])
  /\ Len(Body) = 2 /\ IsTypeFrame(Body[2], "content")

\* the chunks of type error delivered to onChunk
ErrorChunks == {i \in 1..Len(chunks) : chunks[i].type = "error"}

\* C13: in streamChat, when opening or consuming the model stream throws,
\* onChunk has received exactly one error chunk, it is the last chunk, and the
\* promise is resolved, never rejected; without a failure no error chunk is
\* delivered; no chunk of type done is ever delivered.
C13_StreamChatFailure ==
  entry = "streamChat" =>
    /\ \A i \in 1..Len(chunks) : chunks[i].type \in {"content", "thinking", "error"}
    /\ promise # "rejected"
    /\ modelFailed =>
         /\ pc = "done" /\ promise = "resolved"
         /\ ErrorChunks = {Len(chunks)}
    /\ ~modelFailed => ErrorChunks = {}

\* C13 witness: the stream threw after two fragments were delivered
C13_Witness ==
  /\ entry = "streamChat" /\ modelFailed /\ fragCount = 2
  /\ Len(chunks) = 3 /\ chunks[1].type = "content" /\ chunks[2].type = "content"
  /\ chunks[3].type = "error" /\ promise = "resolved"

\* the chunks onChunk is owed for one fragment of the stream
OwedChunks(f) ==
  IF ~CarriesText(f) THEN <<>>
  ELSE IF CarriesThinking(f)
       THEN <<[type |-> "content", content |-> f.content],
              [type |-> "thinking", content |-> CarriedThinking(f)]>>
       ELSE <<[type |-> "content", content |-> f.content]>>

\* C14: in streamChat every fragment read appends exactly the chunks it is
\* owed (none for an empty or non-string content, else its content chunk,
\* then its thinking chunk when it carries one), and the end of the stream
\* appends nothing; so every thinking chunk stands directly after a content
\* chunk.
C14_StreamChatSuccess ==
  /\ [][(entry = "streamChat" /\ pc = "chat_read") =>
          /\ pc' = "chat_read" => chunks' = chunks \o OwedChunks(chunk'[1])
          /\ (pc' = "done" /\ ~modelFailed') => chunks' = chunks]_vars
  /\ [](entry = "streamChat" =>
          \A i \in 1..Len(chunks) :
            chunks[i].type = "thinking" => (i > 1 /\ chunks[i - 1].type = "content"))

\* C14 witness: a finished stream of two fragments, the first with text and
\* thinking, the second without text
C14_Witness ==
  /\ entry = "streamChat" /\ pc = "done" /\ ~modelFailed /\ fragCount = 2
  /\ Len(chunks) = 2
  /\ chunks[1] = [type |-> "content", content |-> <<"1">>]
  /\ chunks[2].type = "thinking"

\* the native type a role is converted to
NativeType(role) == IF role = "user" THEN "human" ELSE "ai"

\* C15: the history of the first model call is the system instruction, then
\* one native message per turn handed to OllamaModel, in the original order,
\* a user turn as a human message and an assistant turn as an assistant
\* message with the same content; the system instruction occurs once.
C15_MessageConversion ==
  ParentCalled =>
    LET turns == parentCalls[1].messages
        h     == modelCalls[1].history
    IN /\ Len(h) = Len(turns) + 1
       /\ h[1].type = "system" /\ h[1].content = SystemPrompt
       /\ \A i \in 1..Len(turns) :
            /\ h[i + 1].type = NativeType(turns[i].role)
            /\ h[i + 1].content = turns[i].content
       /\ Cardinality({i \in 1..Len(h) : h[i].type = "system"}) = 1
       /\ Len(modelCalls) = 1 => langchainMessages = h

\* C15 witness: a user turn followed by an assistant turn was converted
C15_Witness ==
  /\ ParentCalled /\ Len(parentCalls[1].messages) = 2
  /\ parentCalls[1].messages[1].role = "user"
  /\ parentCalls[1].messages[2].role = "assistant"
  /\ modelCalls[1].history[2].type = "human" /\ modelCalls[1].history[3].type = "ai"

\* --------------------------------------------------- the route's outcome
Responded == httpResponse # <<>>
Status == httpResponse[1].status

\* a tool call of this request has thrown
ToolFailed == \E k \in 1..Len(toolOutcomes) : toolOutcomes[k] = "threw"

\* the split of the route: a failure before the stream exists gives status
\* 500 with a JSON {error} body and no stream; otherwise the response is the
\* stream, with the event-stream headers, from the moment it is created
RouteSplit ==
  /\ Responded => Status \in {200, 500}
  /\ (Responded /\ Status = 500) =>
       /\ entry = "POST" /\ pc = "done"
       /\ DOMAIN httpResponse[1].body = {"error"}
       /\ httpResponse[1].headers.ContentType = "application/json"
       /\ parentCalls = <<>> /\ modelCalls = <<>> /\ controller = <<>>
  /\ (Responded /\ Status = 200) =>
       /\ StreamCreated
       /\ httpResponse[1].body = [stream |-> TRUE]
       /\ httpResponse[1].headers =
            [ContentType |-> "text/event-stream", CacheControl |-> "no-cache",
             Connection |-> "keep-alive"]
  /\ StreamCreated => (Responded /\ Status = 200)
  /\ entry = "POST" => (Responded /\ Status = 500)

RetrievalInFlight == searchCalls > 0 /\ retrieval.outcome = "pending"
InvokeCalls == {i \in 1..Len(modelCalls) : modelCalls[i].mode = "invoke"}
StreamCalls == {i \in 1..Len(modelCalls) : modelCalls[i].mode = "stream"}
InvokeInFlight == InvokeCalls # {} /\ response = <<>> /\ ~modelFailed
ToolsInFlight == Len(toolLog) - Len(toolOutcomes)

\* C19: a model call is made only when no retrieval is under way; a tool
\* runs only after the first model call has returned; at most one tool is
\* under way, and tool i+1 starts only when tool i has ended; the streaming
\* call is made only when no tool and no first call is under way and every
\* resolvable tool call of the response has ended.
C19_PhasesInSequence ==
  /\ RetrievalInFlight => (modelCalls = <<>> /\ toolLog = <<>>)
  /\ modelCalls # <<>> => retrieval.outcome \in {"none", "threw", "returned"}
  /\ InvokeInFlight => (toolLog = <<>> /\ StreamCalls = {})
  /\ toolLog # <<>> => (response # <<>> /\ InvokeCalls = {1})
  /\ ToolsInFlight \in {0, 1}
  /\ ToolsInFlight = 1 => StreamCalls = {}
  /\ (entry = "createStreamingResponse" /\ StreamCalls # {}) =>
       /\ response # <<>> /\ ToolsInFlight = 0
       /\ Len(toolOutcomes) = Len(ResolvableCalls(ToolCalls))
       /\ StreamCalls = {2} /\ InvokeCalls = {1}

\* C19 witness: retrieval returned, the first call asked for two tools, both
\* ran, and the streaming call ended
C19_Witness ==
  /\ StreamFinished /\ retrieval.outcome = "returned"
  /\ Len(toolOutcomes) = 2 /\ ToolsInFlight = 0
  /\ StreamCalls = {2} /\ fragCount = 2

\* C20: in one request searchSimilarDocuments is called at most once, the
\* model is invoked at most once and streamed at most once, and every tool
\* call of the response is invoked at most once; once a model call has failed
\* the request is over.
C20_NothingRetried ==
  /\ searchCalls <= 1
  /\ Cardinality(InvokeCalls) <= 1
  /\ Cardinality(StreamCalls) <= 1
  /\ \A i, j \in 1..Len(toolLog) : toolLog[i] = toolLog[j] => i = j
  /\ toolLog # <<>> => \A i \in 1..Len(toolLog) : \E c \in 1..Len(ToolCalls) :
                            ToolCalls[c].id = toolLog[i]
  /\ retrieval.outcome = "threw" => searchCalls = 1
  /\ modelFailed => pc = "done"

\* C20 witness: retrieval threw, a tool threw and the model stream threw, each
\* after a single attempt
C20_Witness ==
  /\ StreamFinished /\ retrieval.outcome = "threw" /\ ToolFailed /\ modelFailed
  /\ searchCalls = 1 /\ InvokeCalls = {1} /\ StreamCalls = {2}

\* ------------------------------------------------------- one tool round
\* the frames of type content or thinking of the body
TextFrames == {i \in 1..Len(Body) : IsTextFrame(Body[i])}

\* the texts the fragments read so far can carry
FragmentTexts ==
  {<<ToString(k)>> : k \in 1..fragCount} \cup {<<"r">>, <<"t">>}

\* C23: a request makes at most two model calls, one invoke then one stream;
\* every tool run is a resolvable call of the first response; once the
\* streaming call is made no step runs a tool or calls the model again, a
\* fragment that requests a tool call included.
C23_OneToolRound ==
  /\ [](/\ Len(modelCalls) <= 2
        /\ (entry = "createStreamingResponse" /\ Len(modelCalls) = 2) =>
             (modelCalls[1].mode = "invoke" /\ modelCalls[2].mode = "stream")
        /\ toolLog # <<>> =>
             /\ response # <<>>
             /\ \A i \in 1..Len(toolLog) :
                  \E c \in 1..Len(ToolCalls) :
                    ToolCalls[c].id = toolLog[i] /\ InToolMap(ToolCalls[c].name)
        /\ HasStreamedToolCalls =>
             \A i \in 1..Len(toolLog) : toolLog[i] # chunk[1].tool_calls[1].id)
  /\ [][StreamCalls # {} =>
          /\ modelCalls' = modelCalls
          /\ toolLog' = toolLog /\ toolOutcomes' = toolOutcomes
          /\ toolMessages' = toolMessages /\ langchainMessages' = langchainMessages]_vars

\* C23 witness: after a round of two tools the second fragment of the final
\* stream requested a tool call and was forwarded as content
C23_Witness ==
  /\ entry = "createStreamingResponse" /\ OnToolBranch /\ pc = "read"
  /\ HasStreamedToolCalls /\ fragCount = 2
  /\ Len(toolOutcomes) = 2 /\ Len(modelCalls) = 2
  /\ Len(Body) = 2 /\ IsTypeFrame(Body[2], "content")

\* C24: on the no-tool branch the second model call is a stream over the
\* history of the first, which is never extended; no tool runs; the body holds
\* no content or thinking frame before a fragment of that stream is read, at
\* most two per fragment read, each carrying text of a fragment read, and no
\* frame carries the text of the first response.
C24_NoToolBranchStreamsAfresh ==
  /\ (entry = "createStreamingResponse" /\ response = <<>>) => TextFrames = {}
  /\ (entry = "createStreamingResponse" /\ response # <<>> /\ ~OnToolBranch) =>
       /\ Len(modelCalls) = 2
       /\ modelCalls[1].mode = "invoke"
       /\ modelCalls[2] = [mode |-> "stream", history |-> modelCalls[1].history]
       /\ langchainMessages = convertToLangChainMessages(parentCalls[1].messages)
       /\ langchainMessages = modelCalls[1].history
       /\ toolLog = <<>> /\ toolMessages = <<>>
       /\ Cardinality(TextFrames) <= 2 * fragCount
       /\ \A i \in TextFrames :
            /\ ChunkOfFrame(Body[i]).content \in FragmentTexts
            /\ ChunkOfFrame(Body[i]).content # response[1].content

\* C24 witness: the no-tool branch ended after two fragments, the first
\* forwarded as a content frame and a thinking frame
C24_Witness ==
  /\ StreamFinished /\ response # <<>> /\ ~OnToolBranch /\ thrown = <<>>
  /\ fragCount = 2 /\ Len(modelCalls) = 2
  /\ Len(Body) >= 3 /\ IsTypeFrame(Body[1], "content")
  /\ ChunkOfFrame(Body[1]).content = <<"1">>
  /\ IsTypeFrame(Body[2], "thinking")

\* --------------------------------------------- shouldUseRAG on its own
\* messages of every length up to one past the largest threshold
OptionMessages == {[i \in 1..n |-> "a"] : n \in 0..(MaxThreshold + 1)}

\* new RAGModel(options) with any recognised enableRAG / ragThreshold
InitOptions ==
  /\ \E options \in OptionSpace :
       /\ ragOptions = ConstructOptions(options)
       /\ configured = ConfiguredAtConstruction(options)
  /\ messages = <<>>
  /\ RequestIdle
  /\ PureIdle

\* this.shouldUseRAG(lastMessage.content), as called at 183 and 216
CallShouldUseRAG(message) ==
  /\ pc = "idle"
  /\ optCall' = <<[message    |-> message,
                   result     |-> ShouldUseRAG(ragOptions, message),
                   configured |-> configured]>>
  /\ UNCHANGED <<ragVars, callVars, modelVars, envVars, outVars, promptIn, promptOut,
                 uiVars, otherVars, pc>>

NextOptions ==
  \/ \E options \in OptionSpace : UpdateRAGOptions(options)
  \/ \E message \in OptionMessages : CallShouldUseRAG(message)

SpecOptions == InitOptions /\ [][NextOptions]_vars

PromptTexts == TextsUpTo({"a", "b"}, MaxLen)
PromptDocs ==
  UNION {[1..n -> [content : PromptTexts, metadata : {EmptyMetadata}]] : n \in 0..MaxDocs}

InitPrompt ==
  /\ promptIn \in [query : PromptTexts, docs : PromptDocs]
  /\ promptOut = [rag |-> <<>>, chain |-> <<>>]
  /\ optCall = <<>>
  /\ ragOptions = ConstructOptions([enableRAG |-> <<>>, ragThreshold |-> <<>>])
  /\ configured = ConfiguredAtConstruction([enableRAG |-> <<>>, ragThreshold |-> <<>>])
  /\ messages = <<>>
  /\ RequestIdle

\* buildRAGPrompt(query, docs) of ragModel.ts is applied
AssembleRAGPrompt ==
  /\ promptOut.rag = <<>>
  /\ promptOut' = [promptOut EXCEPT
                     !.rag = <<buildRAGPrompt(promptIn.query, promptIn.docs)>>]
  /\ UNCHANGED <<ragVars, callVars, modelVars, envVars, outVars, promptIn, optCall,
                 uiVars, otherVars, pc>>

\* buildPrompt(query, docs) of the retrieval chain is applied
AssembleChainPrompt ==
  /\ promptOut.chain = <<>>
  /\ promptOut' = [promptOut EXCEPT
                     !.chain = <<buildPrompt(promptIn.query, promptIn.docs)>>]
  /\ UNCHANGED <<ragVars, callVars, modelVars, envVars, outVars, promptIn, optCall,
                 uiVars, otherVars, pc>>

NextPrompt == AssembleRAGPrompt \/ AssembleChainPrompt

SpecPrompt == InitPrompt /\ [][NextPrompt]_vars

\* number of tokens of section i: label, newline, content
SectionLen(docs, i) == 3 + 1 + Len(docs[i].content)

RECURSIVE SectionStart(_, _)
\* position in the prompt at which section i begins
SectionStart(docs, i) ==
  IF i = 1 THEN Len(TplHeader) + 1
  ELSE SectionStart(docs, i - 1) + SectionLen(docs, i - 1) + Len(BlankLine)

\* the prompt p is: header; for N = 1..|docs|, in input order and separated by
\* a blank line, the label of N, a newline and the content of document N;
\* then the question marker, the query and the instruction suffix
Sectioned(p, query, docs) ==
  LET n == Len(docs)
  IN /\ StartsWith(p, TplHeader)
     /\ \A i \in 1..n :
          /\ SectionStart(docs, i) + SectionLen(docs, i) - 1 <= Len(p)
          /\ SubSeq(p, SectionStart(docs, i),
                    SectionStart(docs, i) + SectionLen(docs, i) - 1)
               = <<"[DOC ", ToString(i), "]", "\n">> \o docs[i].content
     /\ \A i \in 1..(n - 1) :
          p[SectionStart(docs, i) + SectionLen(docs, i)] = "\n\n"
     /\ SubSeq(p, SectionStart(docs, n) + SectionLen(docs, n), Len(p))
          = TplQuestion \o query \o TplSuffix
     /\ Cardinality({k \in 1..Len(p) : p[k] = "[DOC "}) = n

\* the prompts assembled so far from a non-empty docs
AssembledPrompts ==
  IF Len(promptIn.docs) = 0 THEN {}
  ELSE {promptOut.rag[i] : i \in 1..Len(promptOut.rag)}
         \cup {promptOut.chain[i] : i \in 1..Len(promptOut.chain)}

\* C9 as stated: for non-empty D the prompt holds every document once, in
\* input order, each under its 1-based label, and ends with Q.
C9_AsStated ==
  \A p \in AssembledPrompts :
    /\ Sectioned(p, promptIn.query, promptIn.docs)
    /\ EndsWith(p, promptIn.query)

\* C9 amended: for non-empty D the prompt holds every document once, in input
\* order, each under its 1-based label, and ends with the question marker, Q
\* and the fixed instruction suffix: Q is followed by the suffix.
C9_PromptStructure ==
  \A p \in AssembledPrompts :
    /\ Sectioned(p, promptIn.query, promptIn.docs)
    /\ EndsWith(p, promptIn.query \o TplSuffix)
    /\ ~EndsWith(p, TplQuestion \o promptIn.query)

\* C9 witness: both builders applied to two documents with different contents
C9_Witness ==
  /\ Len(promptIn.docs) = 2
  /\ promptIn.docs[1].content # promptIn.docs[2].content
  /\ promptIn.query # <<>>
  /\ Cardinality(AssembledPrompts) = 1
  /\ promptOut.rag # <<>> /\ promptOut.chain # <<>>

\* -------------------------------------------------- the retrieval chain
\* executeRetrievalChain / executeRetrievalChainStream (textSplitter.ts): the
\* query is promptIn.query; `promise` is the promise of OllamaModel.streamChat.
ChainFunctions == {"executeRetrievalChain", "executeRetrievalChainStream"}

InitChain ==
  /\ promptIn \in [query : UserTexts, docs : {<<>>}]
  /\ promptOut = [rag |-> <<>>, chain |-> <<>>]
  /\ optCall = <<>>
  /\ ragOptions = ConstructOptions([enableRAG |-> <<>>, ragThreshold |-> <<>>])
  /\ configured = ConfiguredAtConstruction([enableRAG |-> <<>>, ragThreshold |-> <<>>])
  /\ messages = <<>>
  /\ RequestIdle

\* the chunks of type retrieval: the progress notice (199) and the notice
\* carrying the retrieved documents (221-225)
RetrievalProgress == [type |-> "retrieval", content |-> <<"searching">>]
RetrievalDone(docs) ==
  [type |-> "retrieval", content |-> <<"found ", ToString(Len(docs))>>,
   documents |-> docs]

\* the error chunk of the catch of the stream chain (244-247)
ChainErrorChunk(error) ==
  ErrorChunk(IF error.message # <<>> THEN error.message ELSE <<"chain failed">>)

\* the function is called: the stream chain delivers the progress notice;
\* searchSimilarDocuments awaits embedQuery (126 / 199-201)
ExecuteRetrievalChain(fn) ==
  /\ pc = "idle"
  /\ entry' = fn
  /\ delivered' = IF fn = "executeRetrievalChainStream" THEN <<RetrievalProgress>>
                  ELSE delivered
  /\ chainPromise' = "pending"
  /\ searchCalls' = searchCalls + 1
  /\ retrieval' = [retrieval EXCEPT !.outcome = "pending"]
  /\ pc' = "embed"
  /\ UNCHANGED <<ragVars, messages, shouldUse, parentCalls, promise, httpResponse,
                 modelVars, envVars, outVars, pureVars, uiVars, queryResult,
                 searchOutcome, concVars>>

\* searchSimilarDocuments rejects at any of its awaits: executeRetrievalChain
\* rejects with it, executeRetrievalChainStream catches it (243-248)
ChainSearchThrows(error) ==
  /\ pc \in {"embed", "collection", "query"}
  /\ retrieval' = [retrieval EXCEPT !.outcome = "threw"]
  /\ thrown' = <<error>>
  /\ IF entry = "executeRetrievalChainStream"
     THEN /\ delivered' = Append(delivered, ChainErrorChunk(error))
          /\ chainPromise' = "resolved"
     ELSE /\ chainPromise' = "rejected"
          /\ UNCHANGED delivered
  /\ pc' = "done"
  /\ UNCHANGED <<ragVars, entry, messages, shouldUse, searchCalls, parentCalls, promise,
                 httpResponse, modelVars, envVars, fragCount, chunk, controller, chunks,
                 pureVars, uiVars, queryResult, searchOutcome, concVars>>

\* retrievedDocs.map(doc => ({ content, metadata })) (141-144 / 216-219)
RetrievedDocuments(docs) ==
  [i \in 1..Len(docs) |-> [content  |-> docs[i].pageContent,
                           metadata |-> docs[i].metadata]]

\* the search returns: the prompt is built from whatever came back and
\* submitted as the single user message of streamChat (147-155 / 228-234)
ChainQueryReturns(results) ==
  LET docs   == RetrievedDocuments(documentsOf(results))
      prompt == buildPrompt(promptIn.query, docs)
  IN /\ pc = "query"
     /\ retrieval' =
          [outcome |-> "returned",
           empty   |-> Len(results.ids) = 0,
           usable  |-> Cardinality({i \in 1..Len(results.documents) :
                                      /\ ~IsNull(results.documents[i])
                                      /\ results.documents[i].value # <<>>})]
     /\ promptIn' = [promptIn EXCEPT !.docs = docs]
     /\ promptOut' = [promptOut EXCEPT !.chain = <<prompt>>]
     /\ delivered' = IF entry = "executeRetrievalChainStream"
                     THEN Append(delivered, RetrievalDone(docs)) ELSE delivered
     /\ OllamaStreamChat(<<[role |-> "user", content |-> prompt]>>)
     /\ UNCHANGED <<ragVars, entry, messages, shouldUse, searchCalls, response, toolIdx,
                    toolLog, toolMessages, envVars, outVars, optCall, uiVars,
                    queryResult, searchOutcome, chainPromise, concVars>>

NextChain ==
  \/ \E fn \in ChainFunctions : ExecuteRetrievalChain(fn)
  \/ EmbedReturns
  \/ CollectionReturns
  \/ \E error \in Errors : ChainSearchThrows(error)
  \/ \E results \in QueryResults : ChainQueryReturns(results)
  \/ ChatOpenReturns
  \/ \E error \in Errors : ChatOpenThrows(error)
  \/ \E frag \in Fragments(fragCount + 1) : ChatReadFragment(frag)
  \/ ChatReadEnds
  \/ \E error \in Errors : ChatReadThrows(error)

SpecChain == InitChain /\ [][NextChain]_vars

\* the chain has submitted its prompt to the model
ChainSubmitted == entry \in ChainFunctions /\ Len(modelCalls) > 0

\* the content of the single user message submitted to the model
SubmittedUserContent == modelCalls[1].history[2].content

\* C11 as stated: when the search of the chain returns zero documents, the
\* single user message submitted to the model is the query, unmodified.
C11_AsStated ==
  (ChainSubmitted /\ retrieval.empty) =>
    /\ Len(modelCalls[1].history) = 2
    /\ modelCalls[1].history[2].type = "human"
    /\ SubmittedUserContent = promptIn.query

\* C11 witness: the chain submitted a prompt after a search with no document
C11_Witness ==
  /\ ChainSubmitted /\ retrieval.outcome = "returned" /\ retrieval.empty
  /\ promptIn.docs = <<>>
  /\ SubmittedUserContent = TplHeader \o TplQuestion \o promptIn.query \o TplSuffix

\* ------------------------------------------------------------ the chat UI
\* handleSubmit of page.tsx.  The response body is a sequence of tokens: the
\* `data: ` prefix, a payload, the `\n\n` terminator; reader.read() delivers
\* it in pieces that may end inside a frame.
DataPrefix == [text |-> "data: "]
Terminator == [text |-> "\n\n"]
JunkLine   == [text |-> ": keep-alive"]

\* `data: ${payload}\n\n` on the wire
WireOf(payload) == <<DataPrefix, payload, Terminator>>

\* a payload that JSON.parse rejects
MalformedPayload == [literal |-> "{not json"]

\* what a response body is made of: content, thinking and error frames, a
\* frame with a malformed payload, the sentinel, and a line that is no data
UiFrames ==
  {WireOf(JSONPayload(ContentChunk(<<"x">>))),
   WireOf(JSONPayload(ContentChunk(<<"y">>))),
   WireOf(JSONPayload(ThinkingChunk(<<"t">>))),
   WireOf(JSONPayload(ErrorChunk(<<"boom">>))),
   WireOf(MalformedPayload),
   WireOf(DonePayload),
   <<JunkLine, Terminator>>}

RECURSIVE Flatten(_)
Flatten(ss) == IF ss = <<>> THEN <<>> ELSE Head(ss) \o Flatten(Tail(ss))

UiBodies == {Flatten(fs) : fs \in UNION {[1..n -> UiFrames] : n \in 0..MaxFrames}}

\* String.prototype.trim over the blank token
RECURSIVE Trim(_)
Trim(text) ==
  IF text = <<>> THEN <<>>
  ELSE IF Head(text) = " " THEN Trim(Tail(text))
  ELSE IF text[Len(text)] = " " THEN Trim(SubSeq(text, 1, Len(text) - 1))
  ELSE text

UiInputs == {<<>>, <<" ">>, <<"q">>, <<"q", " ">>}
UiConversations ==
  {<<>>, <<[role |-> "user", content |-> <<"p">>],
           [role |-> "assistant", content |-> <<"r">>, thinking |-> <<>>]>>}

\* the empty assistant message appended before reading (59-62)
Placeholder == [role |-> "assistant", content |-> <<>>, thinking |-> <<>>]

\* the assistant message of the outer catch (127-135)
UiErrorMessage(error) == [role |-> "assistant", content |-> <<"ERR: ">> \o error.message]

\* `throw new Error("Failed to fetch response")` (53)
FailedToFetch == [message |-> <<"Failed to fetch response">>]

RECURSIVE SplitLines(_)
\* buffer.split("\n\n"): the segments between terminators, the last included
SplitLines(tokens) ==
  IF \A i \in 1..Len(tokens) : tokens[i] # Terminator THEN <<tokens>>
  ELSE LET i == CHOOSE k \in 1..Len(tokens) :
                  /\ tokens[k] = Terminator
                  /\ \A j \in 1..(k - 1) : tokens[j] # Terminator
       IN <<SubSeq(tokens, 1, i - 1)>> \o SplitLines(SubSeq(tokens, i + 1, Len(tokens)))

\* line.startsWith("data: ") and line.slice(6)
IsDataLine(line) == line # <<>> /\ line[1] = DataPrefix
DataOf(line) == Tail(line)

\* JSON.parse(data) returns
ParsesAsJSON(data) == Len(data) = 1 /\ "json" \in DOMAIN data[1]

\* the setMessages updaters of 87-100 and 102-115
AppendContentInFront(msgs, text) ==
  IF msgs # <<>> /\ msgs[Len(msgs)].role = "assistant"
  THEN [msgs EXCEPT ![Len(msgs)].content = text \o @]
  ELSE msgs
AppendContent(msgs, text) ==
  IF msgs # <<>> /\ msgs[Len(msgs)].role = "assistant"
  THEN [msgs EXCEPT ![Len(msgs)].content = @ \o text]
  ELSE msgs
AppendThinking(msgs, text) ==
  IF msgs # <<>> /\ msgs[Len(msgs)].role = "assistant"
  THEN LET last == msgs[Len(msgs)]
           old  == IF "thinking" \in DOMAIN last THEN last.thinking ELSE <<>>
       IN SubSeq(msgs, 1, Len(msgs) - 1) \o
            <<[role |-> last.role, content |-> last.content, thinking |-> old \o text]>>
  ELSE msgs

\* one iteration of `for (const line of lines)` (76-123) on the loop state
\* st: the messages, the errors thrown at 117, and whether 81 has returned.
\* JSON.parse throwing and the throw of 117 are both caught at 119.
ProcessLineParseErrorShown(st, line) ==
  IF ~IsDataLine(line) THEN st
  ELSE IF DataOf(line) = <<DonePayload>> THEN [st EXCEPT !.returned = TRUE]
  ELSE IF ~ParsesAsJSON(DataOf(line))
  THEN [st EXCEPT !.messages = Append(@, UiErrorMessage([message |-> <<"SyntaxError">>])),
                  !.returned = TRUE]
  ELSE LET parsed == DataOf(line)[1].json
       IN IF parsed.type = "content"
          THEN [st EXCEPT !.messages = AppendContent(@, parsed.content)]
          ELSE IF parsed.type = "thinking"
          THEN [st EXCEPT !.messages = AppendThinking(@, parsed.content)]
          ELSE IF parsed.type = "error"
          THEN [st EXCEPT !.errors = Append(@, [message |-> parsed.error])]
          ELSE st
ProcessLine(st, line) ==
  IF ~IsDataLine(line) THEN st
  ELSE IF DataOf(line) = <<DonePayload>> THEN [st EXCEPT !.returned = TRUE]
  ELSE IF ~ParsesAsJSON(DataOf(line)) THEN st
  ELSE LET parsed == DataOf(line)[1].json
       IN IF parsed.type = "content"
          THEN [st EXCEPT !.messages = AppendContent(@, parsed.content)]
          ELSE IF parsed.type = "thinking"
          THEN [st EXCEPT !.messages = AppendThinking(@, parsed.content)]
          ELSE IF parsed.type = "error"
          THEN [st EXCEPT !.errors = Append(@, [message |-> parsed.error])]
          ELSE st

RECURSIVE ProcessLines(_, _)
\* the for-of loop: it stops at the return of 81
ProcessLines(st, lines) ==
  IF lines = <<>> \/ st.returned THEN st
  ELSE ProcessLines(ProcessLine(st, Head(lines)), Tail(lines))

InitUI ==
  /\ uiMessages \in UiConversations
  /\ input \in UiInputs
  /\ isLoading = FALSE /\ uiPc = "idle"
  /\ wire = <<>> /\ sent = 0 /\ buffer = <<>> /\ uiErrors = <<>> /\ uiThrown = <<>>
  /\ posted = <<>> /\ ignored = 0
  /\ ragOptions = ConstructOptions([enableRAG |-> <<>>, ragThreshold |-> <<>>])
  /\ configured = ConfiguredAtConstruction([enableRAG |-> <<>>, ragThreshold |-> <<>>])
  /\ messages = <<>>
  /\ RequestIdleOnly
  /\ PureIdle

\* the body of the request: [...messages, userMessage] as role and content
RequestBody(msgs) ==
  [i \in 1..Len(msgs) |-> [role |-> msgs[i].role, content |-> msgs[i].content]]

\* handleSubmit returns at its guard (27): blank input, or an exchange under way
UiSubmitIgnored ==
  /\ Trim(input) = <<>> \/ isLoading
  /\ ignored < MaxIgnored
  /\ ignored' = ignored + 1
  /\ UNCHANGED <<uiMessages, input, isLoading, uiPc, wire, sent, buffer, uiErrors,
                 uiThrown, posted>>
  /\ UNCHANGED <<ragVars, callVars, modelVars, envVars, outVars, pureVars, otherVars,
                 pc>>

\* handleSubmit up to `await fetch(...)` (25-50)
UiSubmit ==
  /\ uiPc = "idle"
  /\ Trim(input) # <<>> /\ ~isLoading
  /\ uiMessages' = Append(uiMessages, [role |-> "user", content |-> Trim(input)])
  /\ posted' = Append(posted,
                      RequestBody(Append(uiMessages,
                                         [role |-> "user", content |-> Trim(input)])))
  /\ input' = <<>>
  /\ isLoading' = TRUE
  /\ uiPc' = "fetch"
  /\ UNCHANGED <<wire, sent, buffer, uiErrors, uiThrown, ignored>>
  /\ UNCHANGED <<ragVars, callVars, modelVars, envVars, outVars, pureVars, otherVars,
                 pc>>

\* the outer catch and the finally (125-138)
UiCatch(error) ==
  /\ uiThrown' = <<error>>
  /\ uiMessages' = Append(uiMessages, UiErrorMessage(error))
  /\ isLoading' = FALSE
  /\ uiPc' = "done"

\* `await fetch(...)` rejects
FetchThrows(error) ==
  /\ uiPc = "fetch"
  /\ UiCatch(error)
  /\ UNCHANGED <<input, wire, sent, buffer, uiErrors, posted, ignored>>
  /\ UNCHANGED <<ragVars, callVars, modelVars, envVars, outVars, pureVars, otherVars,
                 pc>>

\* the response is not ok: the 500 of the route (52-54)
FetchNotOk ==
  /\ uiPc = "fetch"
  /\ UiCatch(FailedToFetch)
  /\ UNCHANGED <<input, wire, sent, buffer, uiErrors, posted, ignored>>
  /\ UNCHANGED <<ragVars, callVars, modelVars, envVars, outVars, pureVars, otherVars,
                 pc>>

\* the response is ok: the placeholder is appended and the first read awaited
FetchOk(body) ==
  /\ uiPc = "fetch"
  /\ wire' = body
  /\ uiMessages' = Append(uiMessages, Placeholder)
  /\ uiPc' = "read"
  /\ UNCHANGED <<input, isLoading, sent, buffer, uiErrors, uiThrown, posted, ignored>>
  /\ UNCHANGED <<ragVars, callVars, modelVars, envVars, outVars, pureVars, otherVars,
                 pc>>

\* the response is ok and has no body: the placeholder is appended and
\* handleSubmit returns at 64, through the finally
FetchOkNoBody ==
  /\ uiPc = "fetch"
  /\ uiMessages' = Append(uiMessages, Placeholder)
  /\ isLoading' = FALSE
  /\ uiPc' = "done"
  /\ UNCHANGED <<input, wire, sent, buffer, uiErrors, uiThrown, posted, ignored>>
  /\ UNCHANGED <<ragVars, callVars, modelVars, envVars, outVars, pureVars, otherVars,
                 pc>>

\* `await reader.read()` resolves with the next k tokens (69-124)
UiRead(k) ==
  /\ uiPc = "read"
  /\ sent + k <= Len(wire)
  /\ LET segments == SplitLines(buffer \o SubSeq(wire, sent + 1, sent + k))
         lines    == SubSeq(segments, 1, Len(segments) - 1)
         st       == ProcessLines([messages |-> uiMessages, errors |-> uiErrors,
                                   returned |-> FALSE], lines)
     IN /\ sent' = sent + k
        /\ buffer' = segments[Len(segments)]
        /\ uiMessages' = st.messages
        /\ uiErrors' = st.errors
        /\ isLoading' = IF st.returned THEN FALSE ELSE isLoading
        /\ uiPc' = IF st.returned THEN "done" ELSE "read"
  /\ UNCHANGED <<input, wire, uiThrown, posted, ignored>>
  /\ UNCHANGED <<ragVars, callVars, modelVars, envVars, outVars, pureVars, otherVars,
                 pc>>

\* `await reader.read()` resolves with done: break, then the finally
UiReadDoneKeepsLoading ==
  /\ uiPc = "read"
  /\ sent = Len(wire)
  /\ uiPc' = "done"
  /\ UNCHANGED <<uiMessages, input, isLoading, wire, sent, buffer, uiErrors, uiThrown,
                 posted, ignored>>
  /\ UNCHANGED <<ragVars, callVars, modelVars, envVars, outVars, pureVars, otherVars,
                 pc>>
UiReadDone ==
  /\ uiPc = "read"
  /\ sent = Len(wire)
  /\ isLoading' = FALSE
  /\ uiPc' = "done"
  /\ UNCHANGED <<uiMessages, input, wire, sent, buffer, uiErrors, uiThrown, posted,
                 ignored>>
  /\ UNCHANGED <<ragVars, callVars, modelVars, envVars, outVars, pureVars, otherVars,
                 pc>>

\* `await reader.read()` rejects
UiReadThrows(error) ==
  /\ uiPc = "read"
  /\ UiCatch(error)
  /\ UNCHANGED <<input, wire, sent, buffer, uiErrors, posted, ignored>>
  /\ UNCHANGED <<ragVars, callVars, modelVars, envVars, outVars, pureVars, otherVars,
                 pc>>

\* the steps of an exchange under way, by the await it is suspended at
UiExchangeStep ==
  \/ /\ uiPc = "fetch"
     /\ \/ \E error \in Errors : FetchThrows(error)
        \/ FetchNotOk
        \/ \E body \in UiBodies : FetchOk(body)
        \/ FetchOkNoBody
  \/ /\ uiPc = "read"
     /\ \/ \E k \in 1..(3 * MaxFrames) : UiRead(k)
        \/ UiReadDone
        \/ \E error \in Errors : UiReadThrows(error)

NextUI ==
  \/ UiSubmit
  \/ UiSubmitIgnored
  \/ \E error \in Errors : FetchThrows(error)
  \/ FetchNotOk
  \/ \E body \in UiBodies : FetchOk(body)
  \/ FetchOkNoBody
  \/ \E k \in 1..(3 * MaxFrames) : UiRead(k)
  \/ UiReadDone
  \/ \E error \in Errors : UiReadThrows(error)

SpecUI == InitUI /\ [][NextUI]_vars

\* every awaited fetch and read settles
LiveSpecUI == SpecUI /\ WF_vars(UiExchangeStep)

\* ------------------------------------------------ observations of the UI
\* the lines the loop has been given so far: the complete lines delivered
LinesRead ==
  LET segments == SplitLines(SubSeq(wire, 1, sent))
  IN SubSeq(segments, 1, Len(segments) - 1)

\* a data line whose payload is neither the sentinel nor valid JSON
IsMalformedLine(line) ==
  /\ IsDataLine(line)
  /\ DataOf(line) # <<DonePayload>>
  /\ ~ParsesAsJSON(DataOf(line))

\* the conversation shows the text of the error e in an assistant message
ShowsError(e) ==
  \E i \in 1..Len(uiMessages) :
    /\ uiMessages[i].role = "assistant"
    /\ EndsWith(uiMessages[i].content, e.message)

\* C17 as stated: when the UI has read a frame of type error, the finished
\* exchange shows an assistant message carrying the error text.
C17_AsStated ==
  (uiPc = "done" /\ uiErrors # <<>>) => ShowsError(uiErrors[1])

\* C17 witness: a content frame and an error frame were read, the exchange is
\* over, and the last message is the partial answer, with no error shown
C17_Witness ==
  /\ uiPc = "done" /\ ~isLoading /\ uiThrown = <<>>
  /\ uiErrors = <<[message |-> <<"boom">>]>>
  /\ uiMessages[Len(uiMessages)] =
       [role |-> "assistant", content |-> <<"x">>, thinking |-> <<>>]
  /\ ~ShowsError(uiErrors[1])

\* C18: while no fetch or read has failed, the messages and the errors seen
\* are those the same lines give with every malformed line deleted, the
\* lines after a malformed one included; the outer catch is entered only by
\* a failed fetch or read, so a malformed payload never shows an error.
C18_MalformedDiscarded ==
  /\ uiThrown # <<>> => uiThrown[1] \in Errors \cup {FailedToFetch}
  /\ (uiPc \in {"read", "done"} /\ uiThrown = <<>>) =>
       LET wellFormed == SelectSeq(LinesRead, LAMBDA l : ~IsMalformedLine(l))
           before     == SubSeq(uiMessages, 1, Len(uiMessages) - 1) \o <<Placeholder>>
           st         == ProcessLines([messages |-> before, errors |-> <<>>,
                                       returned |-> FALSE], wellFormed)
       IN /\ uiMessages = st.messages
          /\ uiErrors = st.errors
          /\ st.returned => uiPc = "done"
          /\ uiPc = "read" => isLoading

\* C18 witness: a malformed frame, then a content frame and a thinking frame,
\* all read, and the answer holds the content and the thinking
C18_Witness ==
  /\ uiPc = "done" /\ uiThrown = <<>> /\ sent = Len(wire)
  /\ Len(LinesRead) = 3 /\ IsMalformedLine(LinesRead[1])
  /\ uiMessages[Len(uiMessages)] =
       [role |-> "assistant", content |-> <<"x">>, thinking |-> <<"t">>]

\* ------------------------------------- searchSimilarDocuments on its own
\* what collection.query can resolve to: documents and metadatas of any length
\* up to that of ids, entries null, empty or one of two distinct values
SearchResponses ==
  UNION {[ids : {[i \in 1..n |-> i]},
          documents : UNION {[1..m -> {NullEntry, [value |-> <<>>], [value |-> <<"x">>],
                                       [value |-> <<"y">>]}] : m \in 0..n},
          metadatas : UNION {[1..m -> {NullEntry, [value |-> <<"m">>],
                                       [value |-> <<"n">>]}] : m \in 0..n}]
         : n \in 0..MaxDocs}

InitSearch ==
  /\ promptIn \in [query : UserTexts, docs : {<<>>}]
  /\ promptOut = [rag |-> <<>>, chain |-> <<>>]
  /\ optCall = <<>>
  /\ ragOptions = ConstructOptions([enableRAG |-> <<>>, ragThreshold |-> <<>>])
  /\ configured = ConfiguredAtConstruction([enableRAG |-> <<>>, ragThreshold |-> <<>>])
  /\ messages = <<>>
  /\ RequestIdle

\* searchSimilarDocuments(query, ...) up to `await embedQuery(...)` (365-372)
SearchSimilarDocuments ==
  /\ pc = "idle"
  /\ entry' = "searchSimilarDocuments"
  /\ searchCalls' = searchCalls + 1
  /\ retrieval' = [retrieval EXCEPT !.outcome = "pending"]
  /\ pc' = "embed"
  /\ UNCHANGED <<ragVars, messages, shouldUse, parentCalls, promise, httpResponse,
                 modelVars, envVars, outVars, pureVars, uiVars, otherVars>>

\* `await collection.query(...)` resolves: the documents are built and
\* returned (387-408)
SearchReturnsPresentOnly(results) ==
  /\ pc = "query"
  /\ queryResult' = <<results>>
  /\ searchOutcome' = <<[documents |-> SelectDocs(documentsOf(results))]>>
  /\ retrieval' = [retrieval EXCEPT !.outcome = "returned"]
  /\ pc' = "done"
  /\ UNCHANGED <<ragVars, entry, messages, shouldUse, searchCalls, parentCalls, promise,
                 httpResponse, modelVars, envVars, outVars, pureVars, uiVars,
                 delivered, chainPromise, concVars>>
SearchReturns(results) ==
  /\ pc = "query"
  /\ queryResult' = <<results>>
  /\ searchOutcome' = <<[documents |-> documentsOf(results)]>>
  /\ retrieval' = [retrieval EXCEPT !.outcome = "returned"]
  /\ pc' = "done"
  /\ UNCHANGED <<ragVars, entry, messages, shouldUse, searchCalls, parentCalls, promise,
                 httpResponse, modelVars, envVars, outVars, pureVars, uiVars,
                 delivered, chainPromise, concVars>>

\* an await of the try block rejects: the catch logs and rethrows (409-419)
SearchRethrows(error) ==
  /\ pc \in {"embed", "collection", "query"}
  /\ searchOutcome' = <<[error |-> error, at |-> pc]>>
  /\ retrieval' = [retrieval EXCEPT !.outcome = "threw"]
  /\ pc' = "done"
  /\ UNCHANGED <<ragVars, entry, messages, shouldUse, searchCalls, parentCalls, promise,
                 httpResponse, modelVars, envVars, outVars, pureVars, uiVars,
                 queryResult, delivered, chainPromise, concVars>>

NextSearch ==
  \/ SearchSimilarDocuments
  \/ EmbedReturns
  \/ CollectionReturns
  \/ \E results \in SearchResponses : SearchReturns(results)
  \/ \E error \in Errors : SearchRethrows(error)

SpecSearch == InitSearch /\ [][NextSearch]_vars

\* entry i of a documents / metadatas array is present and not null
HasEntry(entries, i) == i <= Len(entries) /\ ~IsNull(entries[i])

\* C22: the search settles once, with documents or with an error, never both.
\* The documents are one record per returned id, in the order of the ids;
\* record i holds document i, or the empty string when it is missing, and
\* metadata i, or the empty mapping when it is missing.  An error of the
\* embedding, of getCollection or of the query is the error the caller gets,
\* and no document is returned with it.
C22_PositionalZip ==
  /\ searchOutcome = <<>> <=> pc # "done"
  /\ searchOutcome # <<>> =>
       \/ /\ DOMAIN searchOutcome[1] = {"documents"}
          /\ queryResult # <<>>
          /\ LET r == queryResult[1]
                 d == searchOutcome[1].documents
             IN /\ Len(d) = Len(r.ids)
                /\ \A i \in 1..Len(d) :
                     /\ d[i].pageContent = IF HasEntry(r.documents, i)
                                           THEN r.documents[i].value ELSE <<>>
                     /\ d[i].metadata = IF HasEntry(r.metadatas, i)
                                        THEN r.metadatas[i].value ELSE EmptyMetadata
       \/ /\ DOMAIN searchOutcome[1] = {"error", "at"}
          /\ searchOutcome[1].error \in Errors
          /\ queryResult = <<>>
          /\ retrieval.outcome = "threw"

\* C22 witness: two ids; the first document is null and has metadata, the
\* second has text and no metadata
C22_Witness ==
  /\ searchOutcome # <<>> /\ "documents" \in DOMAIN searchOutcome[1]
  /\ Len(queryResult[1].ids) = 2
  /\ searchOutcome[1].documents =
       <<[pageContent |-> <<>>, metadata |-> <<"m">>],
         [pageContent |-> <<"y">>, metadata |-> EmptyMetadata]>>

\* ------------------------------------------- chunks of the stream chain
\* the positions of the error chunks delivered by the stream chain
DeliveredErrors == {i \in 1..Len(delivered) : delivered[i].type = "error"}

\* C27: in executeRetrievalChainStream the first chunk delivered is the
\* retrieval progress notice; a content chunk stands after the second chunk,
\* which is the retrieval notice carrying the retrieved documents; at most one
\* error chunk is delivered, it is the last chunk and the call is over with
\* it; the promise is never rejected and is resolved when the call is over,
\* with exactly one error chunk when the retrieval or the model failed.
C27_ChainChunkOrder ==
  entry = "executeRetrievalChainStream" =>
    /\ Len(delivered) >= 1 /\ delivered[1] = RetrievalProgress
    /\ \A i \in 1..Len(delivered) :
         /\ delivered[i].type \in {"retrieval", "content", "error"}
         /\ delivered[i].type = "content" =>
              /\ i > 2
              /\ delivered[2] = RetrievalDone(promptIn.docs)
         /\ delivered[i].type = "retrieval" => i <= 2
    /\ Cardinality(DeliveredErrors) <= 1
    /\ \A i \in DeliveredErrors : i = Len(delivered) /\ pc = "done"
    /\ chainPromise # "rejected"
    /\ pc = "done" <=> chainPromise = "resolved"
    /\ pc = "done" =>
         (DeliveredErrors # {} <=> (retrieval.outcome = "threw" \/ modelFailed))

\* C27 witness: two documents were retrieved, a fragment was passed on as
\* content, then the model stream threw
C27_Witness ==
  /\ entry = "executeRetrievalChainStream" /\ pc = "done" /\ modelFailed
  /\ chainPromise = "resolved"
  /\ Len(delivered) = 4 /\ Len(promptIn.docs) = 2
  /\ delivered[3] = [type |-> "content", content |-> <<"1">>]
  /\ delivered[4].type = "error"

\* -------------------------------------------------- the UI's loading flag
\* C25: an exchange under way always ends with isLoading false, however it
\* ends; and a call of handleSubmit made with blank input or while isLoading
\* is true sends no request and leaves the messages, the flag and the
\* exchange under way as they are, while a request is sent only from a state
\* with non-blank input and isLoading false.
C25_LoadingReleased ==
  /\ [](isLoading => <>(~isLoading))
  /\ [](/\ uiPc = "done" => ~isLoading
        /\ uiPc \in {"fetch", "read"} => isLoading
        /\ Len(posted) <= 1)
  /\ [][/\ ignored' # ignored =>
             /\ Trim(input) = <<>> \/ isLoading
             /\ posted' = posted /\ uiMessages' = uiMessages
             /\ isLoading' = isLoading /\ uiPc' = uiPc
        /\ posted' # posted => (Trim(input) # <<>> /\ ~isLoading)]_vars

\* C25 witness: the stream closed without the sentinel, the flag is released,
\* and a submit made meanwhile was ignored
C25_Witness ==
  /\ uiPc = "done" /\ ~isLoading /\ uiThrown = <<>>
  /\ Len(posted) = 1 /\ ignored = 1
  /\ wire # <<>> /\ sent = Len(wire)
  /\ \A i \in 1..Len(LinesRead) : LinesRead[i] # <<DataPrefix, DonePayload>>

\* -------------------------------------------------- folding of the stream
\* the placeholder of the exchange has been appended
HasPlaceholder ==
  /\ posted # <<>>
  /\ Len(uiMessages) - (IF uiThrown # <<>> THEN 1 ELSE 0) > Len(posted[1])

\* the in-progress assistant message: the one after the messages posted
InProgress == uiMessages[Len(posted[1]) + 1]

RECURSIVE BeforeDone(_)
\* the lines received before the sentinel
BeforeDone(lines) ==
  IF lines = <<>> THEN <<>>
  ELSE IF Head(lines) = <<DataPrefix, DonePayload>> THEN <<>>
  ELSE <<Head(lines)>> \o BeforeDone(Tail(lines))

RECURSIVE PayloadsOf(_, _)
\* the concatenated payloads of the frames of the given type among the lines
PayloadsOf(lines, type) ==
  IF lines = <<>> THEN <<>>
  ELSE LET l == Head(lines)
       IN (IF /\ IsDataLine(l) /\ ParsesAsJSON(DataOf(l))
              /\ DataOf(l)[1].json.type = type
           THEN DataOf(l)[1].json.content ELSE <<>>) \o PayloadsOf(Tail(lines), type)

\* C26: however the body is split into reads, the in-progress assistant
\* message holds as content the payloads of the content frames received before
\* the sentinel, concatenated in arrival order, and as thinking those of the
\* thinking frames; frames after the sentinel change nothing; the messages
\* before it are those posted, and no step of the exchange changes them.
C26_Folding ==
  /\ [](HasPlaceholder =>
          /\ InProgress.role = "assistant"
          /\ InProgress.content = PayloadsOf(BeforeDone(LinesRead), "content")
          /\ InProgress.thinking = PayloadsOf(BeforeDone(LinesRead), "thinking")
          /\ RequestBody(SubSeq(uiMessages, 1, Len(posted[1]))) = posted[1])
  /\ [][posted # <<>> =>
          SubSeq(uiMessages', 1, Len(posted[1])) =
            SubSeq(uiMessages, 1, Len(posted[1]))]_vars

\* C26 witness: after an earlier exchange, content frames x and y and the
\* sentinel were received, and the answer reads xy
C26_Witness ==
  /\ uiPc = "done" /\ HasPlaceholder /\ Len(posted[1]) = 3
  /\ Len(LinesRead) = 3 /\ LinesRead[3] = <<DataPrefix, DonePayload>>
  /\ InProgress.content = <<"x", "y">>

\* ------------------------------------------------ two requests interleaved
\* Two calls of OllamaModel.createStreamingResponse whose start() functions
\* run interleaved, on one instance or on two.  `langchainMessages` is a
\* variable of the call (161), captured by start(); the instance holds the
\* bound model, the tool map and the system prompt, which no call assigns.
Requests == {1, 2}

\* the variable `langchainMessages` that call r reads and assigns
ClosureOnInstance(r) == instanceOf[r]
Closure(r) == r

\* the history a call is given: one user turn
RequestHistories == {<<[role |-> "user", content |-> c]>> : c \in UserTexts}

\* what model.invoke resolves to for call r: no tool call, or one whose id
\* is the service's own for that call
RequestResponses(r) ==
  {[type |-> "ai", content |-> <<"first">>, tool_calls |-> <<>>],
   [type |-> "ai", content |-> <<"first">>,
    tool_calls |-> <<[name |-> "get_current_time", id |-> r]>>]}

\* a fragment of the stream opened by the k-th call the model service received
FragmentOfCall(k) ==
  [isString |-> TRUE, content |-> <<ToString(k)>>, reasoning_content |-> <<>>,
   thinking |-> <<>>, tool_calls |-> <<>>]

InitTwo ==
  /\ instanceOf \in {[r \in Requests |-> 1], [r \in Requests |-> r]}
  /\ closures = [c \in Requests |-> <<>>]
  /\ served = <<>>
  /\ requests \in [Requests -> [pc : {"idle"}, messages : RequestHistories,
                                response : {<<>>}, toolMessages : {<<>>},
                                stream : {0}, frags : {0}, controller : {<<>>}]]
  /\ \E options \in {[enableRAG |-> <<>>, ragThreshold |-> <<>>]} :
       /\ ragOptions = ConstructOptions(options)
       /\ configured = ConfiguredAtConstruction(options)
  /\ messages = <<>>
  /\ CallIdle /\ UiIdle /\ PureIdle

\* the variables no step of the two requests changes
TwoFrame ==
  UNCHANGED <<ragVars, callVars, modelVars, envVars, outVars, pureVars, uiVars,
              chainVars, instanceOf, pc>>

\* model.stream(langchainMessages) is called by call r, reading its variable
\* as the step leaves it
RequestCallsStream(r, rq) ==
  /\ served' = Append(served, [request |-> r, mode |-> "stream",
                               history |-> closures'[Closure(r)]])
  /\ requests' = [requests EXCEPT ![r] = [rq EXCEPT !.stream = Len(served) + 1,
                                                    !.pc = "open"]]

\* createStreamingResponse(messages) of call r, up to the first await of start()
StartRequest(r) ==
  /\ requests[r].pc = "idle"
  /\ closures' = [closures EXCEPT
                    ![Closure(r)] = convertToLangChainMessages(requests[r].messages)]
  /\ served' = Append(served, [request |-> r, mode |-> "invoke",
                               history |-> closures'[Closure(r)]])
  /\ requests' = [requests EXCEPT ![r].pc = "invoke"]
  /\ TwoFrame

\* await model.invoke(...) resolves for call r (200-204, 227-229)
RequestInvokeReturns(r, resp) ==
  /\ requests[r].pc = "invoke"
  /\ IF Len(resp.tool_calls) > 0
     THEN /\ requests' = [requests EXCEPT ![r].response = <<resp>>, ![r].pc = "tool"]
          /\ UNCHANGED <<closures, served>>
     ELSE /\ UNCHANGED closures
          /\ RequestCallsStream(r, [requests[r] EXCEPT !.response = <<resp>>])
  /\ TwoFrame

\* await tool.invoke(...) settles for call r: the history is extended and the
\* final stream requested (173-189, 206-216)
RequestToolSettles(r, toolMessage) ==
  /\ requests[r].pc = "tool"
  /\ closures' = [closures EXCEPT
                    ![Closure(r)] = ExtendedHistory(@, requests[r].response[1],
                                                    <<toolMessage>>)]
  /\ RequestCallsStream(r, [requests[r] EXCEPT !.toolMessages = <<toolMessage>>])
  /\ TwoFrame

\* await model.stream(...) resolves for call r
RequestOpenReturns(r) ==
  /\ requests[r].pc = "open"
  /\ requests' = [requests EXCEPT ![r].pc = "read"]
  /\ UNCHANGED <<closures, served>>
  /\ TwoFrame

\* one iteration of the for-await loop of call r, over its own stream
RequestRead(r) ==
  /\ requests[r].pc = "read"
  /\ requests[r].frags < MaxFragments
  /\ LET f  == FragmentOfCall(requests[r].stream)
         cs == IF Len(requests[r].response[1].tool_calls) > 0
               THEN ChunksOfFinalFragment(f) ELSE ChunksOfFragment(f)
     IN requests' = [requests EXCEPT ![r].frags = @ + 1,
                                     ![r].controller = @ \o EnqueueAll(cs)]
  /\ UNCHANGED <<closures, served>>
  /\ TwoFrame

\* the stream of call r ends (259-260)
RequestReadEnds(r) ==
  /\ requests[r].pc = "read"
  /\ requests' = [requests EXCEPT ![r].controller = @ \o FinishOps, ![r].pc = "done"]
  /\ UNCHANGED <<closures, served>>
  /\ TwoFrame

\* a model call of call r throws (261-272)
RequestThrows(r, error) ==
  /\ requests[r].pc \in {"invoke", "open", "read"}
  /\ requests' = [requests EXCEPT ![r].controller = @ \o CatchOps(error),
                                  ![r].pc = "done"]
  /\ UNCHANGED <<closures, served>>
  /\ TwoFrame

NextTwo ==
  \E r \in Requests :
    \/ StartRequest(r)
    \/ \E resp \in RequestResponses(r) : RequestInvokeReturns(r, resp)
    \/ \E result \in ToolResults :
         RequestToolSettles(r, ToolSuccess(requests[r].response[1].tool_calls[1], result))
    \/ \E error \in Errors :
         RequestToolSettles(r, ToolFailure(requests[r].response[1].tool_calls[1], error))
    \/ RequestOpenReturns(r)
    \/ RequestRead(r)
    \/ RequestReadEnds(r)
    \/ \E error \in Errors : RequestThrows(r, error)

SpecTwo == InitTwo /\ [][NextTwo]_vars

\* the converted history call r was given, and that history as call r has
\* extended it so far
OwnBase(r) == convertToLangChainMessages(requests[r].messages)
OwnHistory(r) ==
  IF requests[r].toolMessages # <<>>
  THEN ExtendedHistory(OwnBase(r), requests[r].response[1], requests[r].toolMessages)
  ELSE OwnBase(r)

\* the calls the model service received from call r
ServedTo(r) == {k \in 1..Len(served) : served[k].request = r}

\* the frames of the body of call r that carry a JSON chunk with content
TextFramesOf(r) ==
  LET c == requests[r].controller
  IN {i \in 1..Len(c) : /\ c[i].op = "enqueue"
                        /\ IsJSONFrame(c[i].frame)
                        /\ c[i].frame.payload.json.type \in {"content", "thinking"}}

\* C21: whatever the interleaving, and whether the two calls share an
\* instance or not: every model call of a request is made over its own
\* history, the invoke over the history it was given and the stream over that
\* history as the request itself extended it; it never holds the tool-call
\* message or a tool result of the other request; and every content frame of
\* a request was produced by its own stream, opened over its own history.
C21_NoSharedState ==
  \A r \in Requests :
    /\ \A k \in ServedTo(r) :
         /\ served[k].mode = "invoke" => served[k].history = OwnBase(r)
         /\ served[k].mode = "stream" => served[k].history = OwnHistory(r)
         /\ \A q \in Requests \ {r} : \A i \in 1..Len(served[k].history) :
              LET m == served[k].history[i]
              IN /\ m.type = "tool" => m.tool_call_id # q
                 /\ (m.type = "ai" /\ "tool_calls" \in DOMAIN m) =>
                      \A c \in 1..Len(m.tool_calls) : m.tool_calls[c].id # q
    /\ requests[r].pc # "idle" => closures[Closure(r)] = OwnHistory(r)
    /\ \A i \in TextFramesOf(r) :
         LET k == requests[r].stream
         IN /\ k \in ServedTo(r) /\ served[k].mode = "stream"
            /\ served[k].history = OwnHistory(r)
            /\ requests[r].controller[i].frame.payload.json.content = <<ToString(k)>>

\* C21 witness: two calls on one instance, given different histories, ran
\* interleaved to their ends; the first extended its history with a tool
\* round, the second did not, and both bodies carry content
C21_Witness ==
  /\ instanceOf[1] = instanceOf[2]
  /\ requests[1].messages # requests[2].messages
  /\ requests[1].pc = "done" /\ requests[2].pc = "done"
  /\ Len(served) = 4
  /\ served[1].request = 1 /\ served[2].request = 2
  /\ served[3].request = 1 /\ served[4].request = 2
  /\ requests[1].toolMessages # <<>> /\ requests[2].toolMessages = <<>>
  /\ TextFramesOf(1) # {} /\ TextFramesOf(2) # {}

====
